---- MODULE Spec2Model ----
(***************************************************************************)
(* A model of scriptful: the ConditionStack, the Stack, the Machine that   *)
(* drives an operator system over them, and the simple binary codec.       *)
(*                                                                         *)
(* Fixed-width integers wider than the checker's own (u32, usize, i128)    *)
(* are held as little-endian tuples of bytes, so that u32::MAX or          *)
(* i128::MIN are the values the program has and not scaled stand-ins.      *)
(***************************************************************************)
EXTENDS Integers, Sequences, FiniteSets, TLC

VARIABLES
    cond,       \* a ConditionStack used on its own: [stack_size, first_false_pos]
    naive,      \* the vector of booleans `cond` stands for, kept in lock-step
    cond_ret,   \* what the last ConditionStack call returned
    stack,      \* Machine.stack: [main, alt]
    if_stack,   \* Machine.if_stack
    levels,     \* per open conditional level of the machine: [pushed, now]
    call,       \* the last call made on the machine
    ret,        \* what that call returned
    hook_log,   \* the operator-hook invocations that call made, with results
    script,     \* codec: the script handed to the encoder
    codec,      \* codec: SimpleScriptCodec [data, cursor]
    decoded,    \* codec: what from_vec returned
    reencoded,  \* codec: what to_vec returned for the decoded script
    phase,      \* codec: which step of the round trip comes next
    dcall,      \* codec: the last decoder call and the codec it was made on
    vcall,      \* the last operator of Value applied, with its operands,
                \* and whether the build checks integer overflow
    vret        \* what that operator returned

vars == <<cond, naive, cond_ret, stack, if_stack, levels, call, ret, hook_log,
          script, codec, decoded, reencoded, phase, dcall, vcall, vret>>

condVars == <<cond, naive, cond_ret>>
machineVars == <<stack, if_stack, levels, call, ret, hook_log>>
codecVars == <<script, codec, decoded, reencoded, phase, dcall>>
valueVars == <<vcall, vret>>

(***************************************************************************)
(* Bounds of the model.                                                    *)
(***************************************************************************)
\* deepest nesting the stand-alone ConditionStack is driven to
MaxNesting == 6
\* deepest nesting of conditionals inside the machine
MaxDepth == 2
\* most values held by the machine's stack (main and alt together)
MaxStack == 2
\* longest script handed to run_script on a machine just constructed
MaxScriptLen == 3
\* longest script handed to run_script on a machine that has been used
MaxRerunLen == 1
\* most items of a script handed to the codec
MaxCodecItems == 2

\* the longest byte sequence handed to the decoder, the listed ones apart
MaxInputLen == 3

\* the longest script run on a new simple-math machine, the example apart
MaxMathLen == 3

\* how far below u32::MAX, and how far above 0 once stack_size has wrapped,
\* the deepest condition stacks lie
DeepLevels == 3

\* the most creatures put into the evolution machine at a time
MaxCreatures == 2

(***************************************************************************)
(* Little-endian byte tuples.                                              *)
(***************************************************************************)
Byte == 0..255

RECURSIVE LEFromNat(_, _)
\* the low w bytes of the natural number n, least significant first
LEFromNat(n, w) ==
    IF w = 0 THEN <<>> ELSE <<n % 256>> \o LEFromNat(n \div 256, w - 1)

RECURSIVE LEIsZero(_)
LEIsZero(x) ==
    IF x = <<>> THEN TRUE ELSE Head(x) = 0 /\ LEIsZero(Tail(x))

RECURSIVE LEInc(_)
\* x + 1 modulo 256^Len(x)
LEInc(x) ==
    IF x = <<>> THEN <<>>
    ELSE IF Head(x) < 255 THEN <<Head(x) + 1>> \o Tail(x)
    ELSE <<0>> \o LEInc(Tail(x))

RECURSIVE LEDec(_)
\* x - 1 modulo 256^Len(x)
LEDec(x) ==
    IF x = <<>> THEN <<>>
    ELSE IF Head(x) > 0 THEN <<Head(x) - 1>> \o Tail(x)
    ELSE <<255>> \o LEDec(Tail(x))

\* the bitwise complement
LENot(x) == [i \in 1..Len(x) |-> 255 - x[i]]

\* the two's complement negation, modulo 256^Len(x)
LENeg(x) == LEInc(LENot(x))

\* x as a number, for an x whose bytes above the third are zero
LEToNat(x) ==
    (IF Len(x) >= 1 THEN x[1] ELSE 0)
    + (IF Len(x) >= 2 THEN 256 * x[2] ELSE 0)
    + (IF Len(x) >= 3 THEN 65536 * x[3] ELSE 0)

\* x is below 256^3, and so a number the checker can hold
LEIsSmall(x) == \A i \in 4..Len(x) : x[i] = 0

\* x padded with zero bytes to w bytes
LEZeroExtend(x, w) == x \o [i \in 1..(w - Len(x)) |-> 0]

\* a small natural number as a u32
U32(n) == LEFromNat(n, 4)

\* a small natural number as a usize (64 bits)
USize(n) == LEFromNat(n, 8)

\* a small integer as an i128
I128(n) == IF n >= 0 THEN LEFromNat(n, 16) ELSE LENeg(LEFromNat(0 - n, 16))

I128_MAX == [i \in 1..16 |-> IF i = 16 THEN 127 ELSE 255]

I128_MIN == [i \in 1..16 |-> IF i = 16 THEN 128 ELSE 0]

(***************************************************************************)
(* core/condition_stack.rs                                                 *)
(***************************************************************************)
NO_FALSE == <<255, 255, 255, 255>>

\* the all-zero value a derived Default would give
ConditionStack_default_Zeroed == [stack_size |-> U32(0), first_false_pos |-> U32(0)]

ConditionStack_default == [stack_size |-> U32(0), first_false_pos |-> NO_FALSE]

is_empty(cs) == cs.stack_size = U32(0)

all_true(cs) == cs.first_false_pos = NO_FALSE

\* a push_back that never records where the first false value is
push_back_Forgetful(cs, b) ==
    [cs EXCEPT !.stack_size = LEInc(cs.stack_size)]

\* a push_back that counts the new level before it records the first false
push_back_CountsFirst(cs, b) ==
    LET ffp == IF cs.first_false_pos = NO_FALSE /\ ~b
               THEN LEInc(cs.stack_size)
               ELSE cs.first_false_pos
    IN  [stack_size |-> LEInc(cs.stack_size), first_false_pos |-> ffp]

push_back(cs, b) ==
    LET ffp == IF cs.first_false_pos = NO_FALSE /\ ~b
               THEN cs.stack_size
               ELSE cs.first_false_pos
    IN  [stack_size |-> LEInc(cs.stack_size), first_false_pos |-> ffp]

\* a pop_back that keeps first_false_pos when the first false value is popped
pop_back_KeepsFalse(cs) ==
    IF cs.stack_size = U32(0)
    THEN [cs |-> cs, ret |-> "None"]
    ELSE [cs |-> [cs EXCEPT !.stack_size = LEDec(cs.stack_size)], ret |-> "Some"]

\* a pop_back that compares first_false_pos with the size before the pop
pop_back_ComparesBefore(cs) ==
    IF cs.stack_size = U32(0)
    THEN [cs |-> cs, ret |-> "None"]
    ELSE LET size == LEDec(cs.stack_size)
             ffp  == IF cs.first_false_pos = cs.stack_size THEN NO_FALSE
                     ELSE cs.first_false_pos
         IN  [cs |-> [stack_size |-> size, first_false_pos |-> ffp],
              ret |-> "Some"]

\* a pop_back without the test for the empty stack
pop_back_Unguarded(cs) ==
    LET size == LEDec(cs.stack_size)
        ffp  == IF cs.first_false_pos = size THEN NO_FALSE
                ELSE cs.first_false_pos
    IN  [cs |-> [stack_size |-> size, first_false_pos |-> ffp], ret |-> "Some"]

pop_back(cs) ==
    IF cs.stack_size = U32(0)
    THEN [cs |-> cs, ret |-> "None"]
    ELSE LET size == LEDec(cs.stack_size)
             ffp  == IF cs.first_false_pos = size THEN NO_FALSE
                     ELSE cs.first_false_pos
         IN  [cs |-> [stack_size |-> size, first_false_pos |-> ffp],
              ret |-> "Some"]

\* a toggle_top that also acts when the first false value is below the top
toggle_top_Eager(cs) ==
    IF cs.stack_size = U32(0)
    THEN [cs |-> cs, ret |-> "None"]
    ELSE IF cs.first_false_pos = NO_FALSE
    THEN [cs |-> [cs EXCEPT !.first_false_pos = LEDec(cs.stack_size)],
          ret |-> "Some"]
    ELSE [cs |-> [cs EXCEPT !.first_false_pos = NO_FALSE], ret |-> "Some"]

\* a toggle_top that takes stack_size, not stack_size - 1, for the top
toggle_top_OffByOne(cs) ==
    IF cs.stack_size = U32(0)
    THEN [cs |-> cs, ret |-> "None"]
    ELSE IF cs.first_false_pos = NO_FALSE
    THEN [cs |-> [cs EXCEPT !.first_false_pos = cs.stack_size], ret |-> "Some"]
    ELSE IF cs.first_false_pos = cs.stack_size
    THEN [cs |-> [cs EXCEPT !.first_false_pos = NO_FALSE], ret |-> "Some"]
    ELSE [cs |-> cs, ret |-> "Some"]

\* a toggle_top that makes the top false and never makes it true again
toggle_top_OneWay(cs) ==
    IF cs.stack_size = U32(0)
    THEN [cs |-> cs, ret |-> "None"]
    ELSE IF cs.first_false_pos = NO_FALSE
    THEN [cs |-> [cs EXCEPT !.first_false_pos = LEDec(cs.stack_size)],
          ret |-> "Some"]
    ELSE [cs |-> cs, ret |-> "Some"]

toggle_top(cs) ==
    IF cs.stack_size = U32(0)
    THEN [cs |-> cs, ret |-> "None"]
    ELSE IF cs.first_false_pos = NO_FALSE
    THEN [cs |-> [cs EXCEPT !.first_false_pos = LEDec(cs.stack_size)],
          ret |-> "Some"]
    ELSE IF cs.first_false_pos = LEDec(cs.stack_size)
    THEN [cs |-> [cs EXCEPT !.first_false_pos = NO_FALSE], ret |-> "Some"]
    ELSE [cs |-> cs, ret |-> "Some"]

(***************************************************************************)
(* The vector of booleans the ConditionStack's documentation says it acts  *)
(* like: one boolean per level of nesting.                                 *)
(***************************************************************************)
NaivePush(v, b) == Append(v, b)

NaivePop(v) == IF v = <<>> THEN v ELSE SubSeq(v, 1, Len(v) - 1)

NaiveToggle(v) ==
    IF v = <<>> THEN v ELSE [v EXCEPT ![Len(v)] = ~v[Len(v)]]

NaiveIsEmpty(v) == v = <<>>

NaiveAllTrue(v) == \A i \in 1..Len(v) : v[i]

(***************************************************************************)
(* core/stack.rs.  An Option is a sequence of at most one value.           *)
(***************************************************************************)
None == <<>>

Some(v) == <<v>>

Stack_default == [main |-> <<>>, alt |-> <<>>]

length(s) == Len(s.main)

push(s, item) == [s EXCEPT !.main = Append(s.main, item)]

\* main.pop().unwrap(): the caller gets the popped value, or the thread panics
pop(s) ==
    IF s.main = <<>>
    THEN [stack |-> s, val |-> None, panic |-> TRUE]
    ELSE [stack |-> [s EXCEPT !.main = SubSeq(s.main, 1, Len(s.main) - 1)],
          val |-> Some(s.main[Len(s.main)]), panic |-> FALSE]

\* a pop_into_alt that copies the top of main and leaves it there
pop_into_alt_Copy(s) ==
    IF s.main = <<>>
    THEN [stack |-> s, panic |-> TRUE]
    ELSE [stack |-> [s EXCEPT !.alt = Append(s.alt, s.main[Len(s.main)])],
          panic |-> FALSE]

pop_into_alt(s) ==
    IF s.main = <<>>
    THEN [stack |-> s, panic |-> TRUE]
    ELSE [stack |-> [main |-> SubSeq(s.main, 1, Len(s.main) - 1),
                     alt  |-> Append(s.alt, s.main[Len(s.main)])],
          panic |-> FALSE]

push_from_alt(s) ==
    IF s.alt = <<>>
    THEN [stack |-> s, panic |-> TRUE]
    ELSE [stack |-> [main |-> Append(s.main, s.alt[Len(s.alt)]),
                     alt  |-> SubSeq(s.alt, 1, Len(s.alt) - 1)],
          panic |-> FALSE]

\* a topmost that looks at the bottom of main
topmost_First(s) == IF s.main = <<>> THEN None ELSE Some(s.main[1])

topmost(s) == IF s.main = <<>> THEN None ELSE Some(s.main[Len(s.main)])

(***************************************************************************)
(* core/item.rs.  An item is Operator(op) or Value(val): `val` holds the   *)
(* value of a Value as a tuple of one, and nothing for an Operator; `op`   *)
(* holds "-" for a Value.                                                  *)
(***************************************************************************)
Value(v) == [kind |-> "Value", val |-> <<v>>, op |-> "-"]

Operator(o) == [kind |-> "Operator", val |-> <<>>, op |-> o]

(***************************************************************************)
(* core/value.rs.  A Value is [t, bytes]: a Boolean holds the byte 0 or 1, *)
(* a Float the 8 bytes of its bits, an Integer the 16 bytes of its i128,   *)
(* a String its UTF-8 bytes.                                               *)
(***************************************************************************)
Boolean(b) == [t |-> "Boolean", bytes |-> IF b THEN <<1>> ELSE <<0>>]

Float(bits) == [t |-> "Float", bytes |-> bits]

Integer(n) == [t |-> "Integer", bytes |-> n]

String(utf8) == [t |-> "String", bytes |-> utf8]

(***************************************************************************)
(* Arithmetic of the value types.  An i128 is 16 bytes; an f64 is the 8    *)
(* bytes of its bits, and f64 arithmetic is that of IEEE 754 on finite     *)
(* numbers: the exact result, rounded to the nearest f64, ties to even.    *)
(***************************************************************************)
\* x + y + carry on byte tuples of one length, modulo 256^Len(x)
RECURSIVE LEAdd(_, _, _)
LEAdd(x, y, carry) ==
    IF x = <<>> THEN <<>>
    ELSE <<(x[1] + y[1] + carry) % 256>>
         \o LEAdd(Tail(x), Tail(y), (x[1] + y[1] + carry) \div 256)

\* x * b + carry for a byte b, one byte longer than x
RECURSIVE LEMulByte(_, _, _)
LEMulByte(x, b, carry) ==
    IF x = <<>> THEN <<carry>>
    ELSE <<(x[1] * b + carry) % 256>>
         \o LEMulByte(Tail(x), b, (x[1] * b + carry) \div 256)

\* x * y, Len(x) + Len(y) bytes long
RECURSIVE LEMul(_, _)
LEMul(x, y) ==
    IF y = <<>> THEN [i \in 1..Len(x) |-> 0]
    ELSE LEAdd(LEZeroExtend(LEMulByte(x, y[1], 0), Len(x) + Len(y)),
               <<0>> \o LEMul(x, Tail(y)), 0)

\* the magnitude of an i128, as an unsigned number of 16 bytes
unsigned_abs(x) == IF x[16] < 128 THEN x ELSE LENeg(x)

\* a + b on i128: [val, overflow], val being the wrapped sum
i128_add(a, b) ==
    LET with_sum(sum) ==
            [val |-> sum,
             overflow |-> (a[16] < 128) = (b[16] < 128)
                          /\ (sum[16] < 128) # (a[16] < 128)]
    IN  with_sum(LEAdd(a, b, 0))

\* -a on i128: [val, overflow]
i128_neg(a) == [val |-> LENeg(a), overflow |-> a = I128_MIN]

\* a * b on i128: [val, overflow], val being the wrapped product
i128_mul(a, b) ==
    LET negative(p) ==
            (a[16] < 128) # (b[16] < 128) /\ \E i \in 1..32 : p[i] # 0
        with_product(p) ==
            [val |-> IF negative(p) THEN LENeg(SubSeq(p, 1, 16))
                     ELSE SubSeq(p, 1, 16),
             overflow |->
                \/ \E i \in 17..32 : p[i] # 0
                \/ p[16] >= 128 /\ ~(negative(p) /\ SubSeq(p, 1, 16) = I128_MIN)]
    IN  with_product(LEMul(unsigned_abs(a), unsigned_abs(b)))

\* the sign of a finite f64, and the m and e for which it is m * 2^e in
\* magnitude: m is 7 bytes, the 52 fraction bits below the implicit bit
f64_parts(bits) ==
    LET field == (bits[8] % 128) * 16 + bits[7] \div 16
    IN  [negative |-> bits[8] >= 128,
         m |-> SubSeq(bits, 1, 6)
               \o <<(bits[7] % 16) + (IF field > 0 THEN 16 ELSE 0)>>,
         e |-> (IF field > 0 THEN field ELSE 1) - 1075]

\* the f64 nearest to x * 2^e, ties to even, with the given sign: x is an
\* unsigned number of any length.  The 53 bits from the highest set bit
\* down are kept (fewer for a subnormal), and the bits below them round.
f64_round(negative, x, e) ==
    LET nbits == 8 * Len(x)
        Bit(i) == IF i < 0 \/ i >= nbits THEN 0
                  ELSE (x[i \div 8 + 1] \div (2 ^ (i % 8))) % 2
        sign == IF negative THEN 128 ELSE 0
        compose(r, s) ==
            LET carried == r[7] >= 32
                mant == IF carried THEN <<0, 0, 0, 0, 0, 0, 16>> ELSE r
                field == IF mant[7] < 16 THEN 0
                         ELSE e + s + 1075 + (IF carried THEN 1 ELSE 0)
            IN  IF field >= 2047
                THEN <<0, 0, 0, 0, 0, 0, 240, sign + 127>>
                ELSE SubSeq(mant, 1, 6)
                     \o <<(field % 16) * 16 + (mant[7] % 16),
                          sign + field \div 16>>
        kept(s) ==
            LET q == [j \in 1..7 |->
                        Bit(s + 8 * j - 8) + 2 * Bit(s + 8 * j - 7)
                        + 4 * Bit(s + 8 * j - 6) + 8 * Bit(s + 8 * j - 5)
                        + 16 * Bit(s + 8 * j - 4) + 32 * Bit(s + 8 * j - 3)
                        + 64 * Bit(s + 8 * j - 2) + 128 * Bit(s + 8 * j - 1)]
                up == /\ Bit(s - 1) = 1
                      /\ q[1] % 2 = 1 \/ \E i \in 0..(s - 2) : Bit(i) = 1
            IN  compose(IF up THEN LEInc(q) ELSE q, s)
        from_highest(h) ==
            kept(IF h - 52 > 0 - 1074 - e THEN h - 52 ELSE 0 - 1074 - e)
    IN  IF \A i \in 1..Len(x) : x[i] = 0
        THEN <<0, 0, 0, 0, 0, 0, 0, sign>>
        ELSE from_highest(CHOOSE h \in 0..(nbits - 1) :
                              /\ Bit(h) = 1
                              /\ \A i \in (h + 1)..(nbits - 1) : Bit(i) = 0)

\* n as f64
as_f64(n) == f64_round(n[16] >= 128, unsigned_abs(n), 0)

\* -a on f64: the sign bit flips
f64_neg(a) == [a EXCEPT ![8] = (a[8] + 128) % 256]

\* a + b on finite f64: both magnitudes are brought to the lower of the two
\* exponents, added or subtracted exactly, and the result rounded.  An
\* operand more than 128 binary places below the other only tells the
\* rounding that the result is inexact.
f64_add(a, b) ==
    LET pa == f64_parts(a)
        pb == f64_parts(b)
        e == IF pa.e - pb.e > 128 THEN pa.e - 64
             ELSE IF pb.e - pa.e > 128 THEN pb.e - 64
             ELSE IF pa.e < pb.e THEN pa.e ELSE pb.e
        aligned(p, other) ==
            IF other.e - p.e > 128
            THEN IF \A i \in 1..7 : p.m[i] = 0 THEN <<0>> ELSE <<1>>
            ELSE LEMul(p.m, [i \in 1..((p.e - e) \div 8 + 1) |->
                                IF i = (p.e - e) \div 8 + 1
                                THEN 2 ^ ((p.e - e) % 8) ELSE 0])
        less(x, y) ==
            \E i \in 1..Len(x) :
                x[i] < y[i] /\ \A j \in (i + 1)..Len(x) : x[j] = y[j]
        sum(x, y) ==
            IF pa.negative # pb.negative /\ x = y
            THEN <<0, 0, 0, 0, 0, 0, 0, 0>>
            ELSE f64_round(IF pa.negative # pb.negative /\ less(x, y)
                           THEN pb.negative ELSE pa.negative,
                           IF pa.negative = pb.negative THEN LEAdd(x, y, 0)
                           ELSE IF less(x, y) THEN LEAdd(y, LENot(x), 1)
                           ELSE LEAdd(x, LENot(y), 1),
                           e)
    IN  sum(LEZeroExtend(aligned(pa, pb), 27),
            LEZeroExtend(aligned(pb, pa), 27))

\* a * b on finite f64: the exact product of the magnitudes, rounded
f64_mul(a, b) ==
    f64_round(f64_parts(a).negative # f64_parts(b).negative,
              LEMul(f64_parts(a).m, f64_parts(b).m),
              f64_parts(a).e + f64_parts(b).e)

(***************************************************************************)
(* core/value.rs: the operators of Value.  A call returns [res, val]: Ok   *)
(* with the Value, or a panic.  Integer overflow panics in a build with    *)
(* overflow checks and wraps in a build without them.                      *)
(***************************************************************************)
ValueOk(v) == [res |-> "Ok", val |-> <<v>>]

ValuePanic == [res |-> "Panic", val |-> <<>>]

\* the Integer an i128 operation leaves, or the panic of its overflow
checked(r, overflow_checks) ==
    IF r.overflow /\ overflow_checks THEN ValuePanic
    ELSE ValueOk(Integer(r.val))

not(self, overflow_checks) ==
    CASE self.t = "Boolean" -> ValueOk(Boolean(self.bytes = <<0>>))
      [] self.t = "Float" -> ValueOk(Float(f64_neg(self.bytes)))
      [] self.t = "Integer" -> checked(i128_neg(self.bytes), overflow_checks)
      [] OTHER -> ValuePanic

add(self, rhs, overflow_checks) ==
    LET as_float(v) == IF v.t = "Integer" THEN as_f64(v.bytes) ELSE v.bytes
    IN  CASE self.t = "Boolean" /\ rhs.t = "Boolean" ->
                ValueOk(Boolean(self.bytes = <<1>> \/ rhs.bytes = <<1>>))
          [] self.t = "Integer" /\ rhs.t = "Integer" ->
                checked(i128_add(self.bytes, rhs.bytes), overflow_checks)
          \* Float + Float, Float + Integer as f64, Integer as f64 + Float
          [] {self.t, rhs.t} \in {{"Float"}, {"Float", "Integer"}} ->
                ValueOk(Float(f64_add(as_float(self), as_float(rhs))))
          [] OTHER -> ValuePanic

mul(self, rhs, overflow_checks) ==
    LET as_float(v) == IF v.t = "Integer" THEN as_f64(v.bytes) ELSE v.bytes
    IN  CASE self.t = "Boolean" /\ rhs.t = "Boolean" ->
                ValueOk(Boolean(self.bytes = <<1>> /\ rhs.bytes = <<1>>))
          [] self.t = "Integer" /\ rhs.t = "Integer" ->
                checked(i128_mul(self.bytes, rhs.bytes), overflow_checks)
          \* Float * Float, Float * Integer as f64, Integer as f64 * Float
          [] {self.t, rhs.t} \in {{"Float"}, {"Float", "Integer"}} ->
                ValueOk(Float(f64_mul(as_float(self), as_float(rhs))))
          [] OTHER -> ValuePanic

\* self + !rhs
sub(self, rhs, overflow_checks) ==
    IF not(rhs, overflow_checks).res # "Ok" THEN not(rhs, overflow_checks)
    ELSE add(self, not(rhs, overflow_checks).val[1], overflow_checks)

(***************************************************************************)
(* op_systems/simple_math.rs: the operators the codec knows.               *)
(***************************************************************************)
MathOperator == {"Add", "Equal", "Mul", "Not", "Sub"}

\* a == b of core/value.rs, which simple_math's Equal applies.  Two numbers
\* are equal when the square of their difference is below 1e-19.
eq(self, other) ==
    LET as_float(v) == IF v.t = "Integer" THEN as_f64(v.bytes) ELSE v.bytes
        \* 0.000_000_000_000_000_000_1, the bits of 1e-19
        limit == <<172, 210, 182, 79, 201, 131, 253, 59>>
        below(square) ==
            \E i \in 1..8 :
                /\ square[i] < limit[i]
                /\ \A j \in (i + 1)..8 : square[j] = limit[j]
        square_of(difference) == f64_mul(difference, difference)
    IN  IF {self.t, other.t} \in {{"Float"}, {"Float", "Integer"}}
        THEN below(square_of(f64_add(as_float(self),
                                     f64_neg(as_float(other)))))
        ELSE self = other

\* done(stack_left, r): what an operator of Value leaves on the stack, or
\* the panic it ended in
done(stack_left, r) ==
    IF r.res # "Ok" THEN [stack |-> stack_left, panic |-> TRUE]
    ELSE [stack |-> push(stack_left, r.val[1]), panic |-> FALSE]

\* an operator system that reads its operands and leaves them on the stack
simple_math_op_sys_Peek(s, operator, overflow_checks) ==
    LET a == pop(s)
        b == pop(a.stack)
    IN  IF a.panic THEN [stack |-> a.stack, panic |-> TRUE]
        ELSE IF operator = "Not"
        THEN done(s, not(a.val[1], overflow_checks))
        ELSE IF b.panic THEN [stack |-> b.stack, panic |-> TRUE]
        ELSE done(s,
                  CASE operator = "Add" ->
                          add(a.val[1], b.val[1], overflow_checks)
                    [] operator = "Equal" ->
                          ValueOk(Boolean(eq(a.val[1], b.val[1])))
                    [] operator = "Mul" ->
                          mul(a.val[1], b.val[1], overflow_checks)
                    [] operator = "Sub" ->
                          sub(a.val[1], b.val[1], overflow_checks))

\* an operator system that takes the first operand off the stack and only
\* reads the second
simple_math_op_sys_KeepsSecond(s, operator, overflow_checks) ==
    LET a == pop(s)
        b == pop(a.stack)
    IN  IF a.panic THEN [stack |-> a.stack, panic |-> TRUE]
        ELSE IF operator = "Not"
        THEN done(a.stack, not(a.val[1], overflow_checks))
        ELSE IF b.panic THEN [stack |-> b.stack, panic |-> TRUE]
        ELSE done(a.stack,
                  CASE operator = "Add" ->
                          add(a.val[1], b.val[1], overflow_checks)
                    [] operator = "Equal" ->
                          ValueOk(Boolean(eq(a.val[1], b.val[1])))
                    [] operator = "Mul" ->
                          mul(a.val[1], b.val[1], overflow_checks)
                    [] operator = "Sub" ->
                          sub(a.val[1], b.val[1], overflow_checks))

\* simple_math_op_sys(stack, operator): [stack, panic].  The values come
\* off the stack with pop, which panics on an empty stack, and the operators
\* of Value panic on the types they do not take.  overflow_checks tells
\* whether the build checks integer overflow.
simple_math_op_sys(s, operator, overflow_checks) ==
    LET a == pop(s)
        b == pop(a.stack)
    IN  IF a.panic THEN [stack |-> a.stack, panic |-> TRUE]
        ELSE IF operator = "Not"
        THEN done(a.stack, not(a.val[1], overflow_checks))
        ELSE IF b.panic THEN [stack |-> b.stack, panic |-> TRUE]
        ELSE done(b.stack,
                  CASE operator = "Add" ->
                          add(a.val[1], b.val[1], overflow_checks)
                    [] operator = "Equal" ->
                          ValueOk(Boolean(eq(a.val[1], b.val[1])))
                    [] operator = "Mul" ->
                          mul(a.val[1], b.val[1], overflow_checks)
                    [] operator = "Sub" ->
                          sub(a.val[1], b.val[1], overflow_checks))

(***************************************************************************)
(* op_systems/pokemon.rs.  A creature and a command are their names.       *)
(***************************************************************************)
Creature ==
    {"Bulbasaur", "Ivysaur", "Venusaur", "Charmander", "Charmaleon",
     "Charizard", "Squirtle", "Wartortle", "Blastoise"}

Command == {"Evolute", "Devolute", "Close"}

\* an operator system whose Evolute starts a family over after its last
\* stage
pokemon_op_sys_StartsOver(s, operator) ==
    LET last_creature == pop(s)
    IN  IF last_creature.panic
        THEN [stack |-> last_creature.stack, panic |-> TRUE]
        ELSE CASE operator = "Evolute" ->
                     [stack |-> push(last_creature.stack,
                          CASE last_creature.val[1] = "Bulbasaur" -> "Ivysaur"
                            [] last_creature.val[1] = "Ivysaur" -> "Venusaur"
                            [] last_creature.val[1] = "Venusaur" -> "Bulbasaur"
                            [] last_creature.val[1] = "Charmander" -> "Charmaleon"
                            [] last_creature.val[1] = "Charmaleon" -> "Charizard"
                            [] last_creature.val[1] = "Charizard" -> "Charmander"
                            [] last_creature.val[1] = "Squirtle" -> "Wartortle"
                            [] last_creature.val[1] = "Wartortle" -> "Blastoise"
                            [] OTHER -> "Squirtle"),
                      panic |-> FALSE]
               [] operator = "Devolute" ->
                     [stack |-> push(last_creature.stack,
                          CASE last_creature.val[1] = "Ivysaur" -> "Bulbasaur"
                            [] last_creature.val[1] = "Venusaur" -> "Ivysaur"
                            [] last_creature.val[1] = "Charmaleon" -> "Charmander"
                            [] last_creature.val[1] = "Charizard" -> "Charmaleon"
                            [] last_creature.val[1] = "Wartortle" -> "Squirtle"
                            [] last_creature.val[1] = "Blastoise" -> "Wartortle"
                            [] OTHER -> last_creature.val[1]),
                      panic |-> FALSE]
               [] operator = "Close" ->
                     [stack |-> last_creature.stack, panic |-> FALSE]

\* pokemon_op_sys(stack, operator): [stack, panic].  The last creature
\* comes off the stack with pop().unwrap() before the command is looked at,
\* so every command panics on an empty stack.
pokemon_op_sys(s, operator) ==
    LET last_creature == pop(s)
    IN  IF last_creature.panic
        THEN [stack |-> last_creature.stack, panic |-> TRUE]
        ELSE CASE operator = "Evolute" ->
                     [stack |-> push(last_creature.stack,
                          CASE last_creature.val[1] = "Bulbasaur" -> "Ivysaur"
                            [] last_creature.val[1] = "Ivysaur" -> "Venusaur"
                            [] last_creature.val[1] = "Charmander" -> "Charmaleon"
                            [] last_creature.val[1] = "Charmaleon" -> "Charizard"
                            [] last_creature.val[1] = "Squirtle" -> "Wartortle"
                            [] last_creature.val[1] = "Wartortle" -> "Blastoise"
                            [] OTHER -> last_creature.val[1]),
                      panic |-> FALSE]
               [] operator = "Devolute" ->
                     [stack |-> push(last_creature.stack,
                          CASE last_creature.val[1] = "Ivysaur" -> "Bulbasaur"
                            [] last_creature.val[1] = "Venusaur" -> "Ivysaur"
                            [] last_creature.val[1] = "Charmaleon" -> "Charmander"
                            [] last_creature.val[1] = "Charizard" -> "Charmaleon"
                            [] last_creature.val[1] = "Wartortle" -> "Squirtle"
                            [] last_creature.val[1] = "Blastoise" -> "Wartortle"
                            [] OTHER -> last_creature.val[1]),
                      panic |-> FALSE]
               [] operator = "Close" ->
                     [stack |-> last_creature.stack, panic |-> FALSE]

(***************************************************************************)
(* The operator system the machine is driven with.  The machine takes any  *)
(* function of this shape; this one implements conditionals the way the    *)
(* ConditionStack is meant to be used, plus two operators that work on the *)
(* stack in the taken branch only.  It reports underflow and unbalanced    *)
(* conditionals as errors of its own kind.  On a MathOperator it is        *)
(* simple_math_op_sys, and on a Command it is pokemon_op_sys; these leave  *)
(* the condition stack alone and return no error: they return, or the      *)
(* thread panics.                                                          *)
(***************************************************************************)
CondOps == {"IF_TRUE", "IF_FALSE", "ELSE", "ENDIF", "VERIFY", "TOALT"}

HookOk == "Ok"

op_sys(s, operator, cs) ==
    CASE operator \in MathOperator ->
            \* a machine made with simple_math_op_sys
            LET returned(r) ==
                    [stack |-> r.stack, cs |-> cs,
                     res |-> IF r.panic THEN "panic" ELSE HookOk]
            IN  returned(simple_math_op_sys(s, operator,
                                            vcall.overflow_checks))
      [] operator \in Command ->
            \* a machine made with pokemon_op_sys
            LET returned(r) ==
                    [stack |-> r.stack, cs |-> cs,
                     res |-> IF r.panic THEN "panic" ELSE HookOk]
            IN  returned(pokemon_op_sys(s, operator))
      [] operator = "IF_TRUE" ->
            [stack |-> s, cs |-> push_back(cs, TRUE), res |-> HookOk]
      [] operator = "IF_FALSE" ->
            [stack |-> s, cs |-> push_back(cs, FALSE), res |-> HookOk]
      [] operator = "ELSE" ->
            LET r == toggle_top(cs)
            IN  [stack |-> s, cs |-> r.cs,
                 res |-> IF r.ret = "None" THEN "ElseWithoutIf" ELSE HookOk]
      [] operator = "ENDIF" ->
            LET r == pop_back(cs)
            IN  [stack |-> s, cs |-> r.cs,
                 res |-> IF r.ret = "None" THEN "EndifWithoutIf" ELSE HookOk]
      [] operator = "VERIFY" ->
            \* taken branch only: pop the top, fail unless it is 1
            IF ~all_true(cs) THEN [stack |-> s, cs |-> cs, res |-> HookOk]
            ELSE IF length(s) = 0
            THEN [stack |-> s, cs |-> cs, res |-> "Underflow"]
            ELSE LET p == pop(s)
                 IN  [stack |-> p.stack, cs |-> cs,
                      res |-> IF p.val = Some(1) THEN HookOk ELSE "VerifyFailed"]
      [] operator = "TOALT" ->
            \* taken branch only: move the top of main to alt
            IF ~all_true(cs) THEN [stack |-> s, cs |-> cs, res |-> HookOk]
            ELSE IF length(s) = 0
            THEN [stack |-> s, cs |-> cs, res |-> "Underflow"]
            ELSE [stack |-> pop_into_alt(s).stack, cs |-> cs, res |-> HookOk]

(***************************************************************************)
(* core/machine.rs.  A machine is [stack, if_stack]; a call returns the    *)
(* machine it leaves, its Result and the hook invocations it made.         *)
(***************************************************************************)
Ok(top) == [ok |-> TRUE, top |-> top, err |-> "-", len |-> 0]

Err(e) == [ok |-> FALSE, top |-> None, err |-> e, len |-> 0]

\* what a call that panicked leaves in `ret`: the thread has unwound
Panic == [ok |-> FALSE, top |-> None, err |-> "panic", len |-> 0]

\* what a call that returns a usize, or nothing, leaves in `ret`
Usize(n) == [ok |-> TRUE, top |-> None, err |-> "-", len |-> n]

Machine_new == [stack |-> Stack_default, if_stack |-> ConditionStack_default]

stack_length(m) == length(m.stack)

\* an operate that pushes a Value whatever the condition stack says
operate_AlwaysPush(m, item) ==
    IF item.kind = "Operator"
    THEN LET h == op_sys(m.stack, item.op, m.if_stack)
         IN  [m |-> [stack |-> h.stack, if_stack |-> h.cs],
              ret |-> IF h.res = HookOk THEN Ok(topmost(h.stack)) ELSE Err(h.res),
              hooks |-> <<[op |-> item.op, res |-> h.res]>>]
    ELSE LET s == push(m.stack, item.val[1])
         IN  [m |-> [m EXCEPT !.stack = s], ret |-> Ok(topmost(s)), hooks |-> <<>>]

\* an operate that leaves the hook alone in an inactive branch
operate_SkipsInactive(m, item) ==
    IF item.kind = "Operator" /\ all_true(m.if_stack)
    THEN LET h == op_sys(m.stack, item.op, m.if_stack)
         IN  [m |-> [stack |-> h.stack, if_stack |-> h.cs],
              ret |-> IF h.res = HookOk THEN Ok(topmost(h.stack)) ELSE Err(h.res),
              hooks |-> <<[op |-> item.op, res |-> h.res]>>]
    ELSE LET s == IF all_true(m.if_stack) /\ item.kind = "Value"
                  THEN push(m.stack, item.val[1])
                  ELSE m.stack
         IN  [m |-> [m EXCEPT !.stack = s], ret |-> Ok(topmost(s)), hooks |-> <<>>]

\* an operate for which a Value in an inactive branch is an error
operate_InactiveIsError(m, item) ==
    IF item.kind = "Operator"
    THEN LET h == op_sys(m.stack, item.op, m.if_stack)
         IN  [m |-> [stack |-> h.stack, if_stack |-> h.cs],
              ret |-> IF h.res = HookOk THEN Ok(topmost(h.stack)) ELSE Err(h.res),
              hooks |-> <<[op |-> item.op, res |-> h.res]>>]
    ELSE IF all_true(m.if_stack)
    THEN LET s == push(m.stack, item.val[1])
         IN  [m |-> [m EXCEPT !.stack = s], ret |-> Ok(topmost(s)), hooks |-> <<>>]
    ELSE [m |-> m, ret |-> Err("InactiveBranch"), hooks |-> <<>>]

operate(m, item) ==
    IF item.kind = "Operator"
    THEN LET map(h) ==
                 [m |-> [stack |-> h.stack, if_stack |-> h.cs],
                  ret |-> IF h.res = HookOk THEN Ok(topmost(h.stack))
                          ELSE Err(h.res),
                  hooks |-> <<[op |-> item.op, res |-> h.res]>>]
         IN  map(op_sys(m.stack, item.op, m.if_stack))
    ELSE LET s == IF all_true(m.if_stack) THEN push(m.stack, item.val[1])
                  ELSE m.stack
         IN  [m |-> [m EXCEPT !.stack = s], ret |-> Ok(topmost(s)), hooks |-> <<>>]

RECURSIVE run_script_loop_KeepsGoing(_, _, _)
\* a loop that drops an item's error and goes on to the next item
run_script_loop_KeepsGoing(m, items, hooks) ==
    IF items = <<>>
    THEN [m |-> m, ret |-> Ok(topmost(m.stack)), hooks |-> hooks]
    ELSE LET r == operate(m, Head(items))
         IN  run_script_loop_KeepsGoing(r.m, Tail(items), hooks \o r.hooks)

RECURSIVE run_script_loop_Backwards(_, _, _)
\* a loop that takes the items last to first
run_script_loop_Backwards(m, items, hooks) ==
    IF items = <<>>
    THEN [m |-> m, ret |-> Ok(topmost(m.stack)), hooks |-> hooks]
    ELSE LET r == operate(m, items[Len(items)])
             rest == SubSeq(items, 1, Len(items) - 1)
         IN  IF ~r.ret.ok
             THEN [m |-> r.m, ret |-> r.ret, hooks |-> hooks \o r.hooks]
             ELSE run_script_loop_Backwards(r.m, rest, hooks \o r.hooks)

RECURSIVE run_script_loop(_, _, _)
\* the for loop of run_script over the items still to come
run_script_loop(m, items, hooks) ==
    IF items = <<>>
    THEN [m |-> m, ret |-> Ok(topmost(m.stack)), hooks |-> hooks]
    ELSE LET question_mark(r) ==
                 IF ~r.ret.ok
                 THEN [m |-> r.m, ret |-> r.ret, hooks |-> hooks \o r.hooks]
                 ELSE run_script_loop(r.m, Tail(items), hooks \o r.hooks)
         IN  question_mark(operate(m, Head(items)))

run_script(m, items) == run_script_loop(m, items, <<>>)

(***************************************************************************)
(* codecs/simple/mod.rs.  A SimpleScriptCodec is [data, cursor].           *)
(***************************************************************************)
SimpleScriptCodec_default == [data |-> <<>>, cursor |-> 0]

from_data(data) == [data |-> data, cursor |-> 0]

bytes_left(c) == Len(c.data) - c.cursor

\* i128::saturating_abs
saturating_abs(x) ==
    IF x[16] < 128 THEN x
    ELSE IF x = I128_MIN THEN I128_MAX
    ELSE LENeg(x)

\* a test that also shifts a dividend of exactly 256
GreaterThan256_Inclusive(x) ==
    /\ x[16] < 128
    /\ \/ \E i \in 3..16 : x[i] # 0
       \/ x[2] >= 1

\* dividend > 256, on an i128
GreaterThan256(x) ==
    /\ x[16] < 128
    /\ \/ \E i \in 3..16 : x[i] # 0
       \/ x[2] > 1
       \/ x[2] = 1 /\ x[1] > 0

\* dividend >> 8, on an i128: the shift is arithmetic
ShiftRight8(x) == Tail(x) \o <<IF x[16] < 128 THEN 0 ELSE 255>>

\* the while loop of significant_bytes_count
RECURSIVE significant_bytes_loop(_, _)
significant_bytes_loop(dividend, counter) ==
    IF GreaterThan256(dividend)
    THEN significant_bytes_loop(ShiftRight8(dividend), counter + 1)
    ELSE counter

significant_bytes_count(input) ==
    significant_bytes_loop(saturating_abs(input), 0)

(***************************************************************************)
(* codecs/simple/enc.rs.  An encoder call returns the codec it leaves.     *)
(***************************************************************************)
write_u8(c, input) == [c EXCEPT !.data = Append(@, input)]

write_bytes(c, input) == [c EXCEPT !.data = @ \o input]

discriminant(op) ==
    CASE op = "Add" -> 0
      [] op = "Equal" -> 1
      [] op = "Mul" -> 2
      [] op = "Not" -> 3
      [] op = "Sub" -> 4

encode_MathOperator(op, c) == write_u8(c, discriminant(op) + 128)

\* an encoder that writes all 16 bytes of every integer
encode_Value_FullBody(val, c) ==
    LET sbc == significant_bytes_count(val.bytes)
        len == Len(val.bytes)
        str_bytes_len_sbc == 1 + significant_bytes_count(I128(len))
        bytes ==
            CASE val.t = "Boolean" -> val.bytes
              [] val.t = "Float" -> <<2>> \o val.bytes
              [] val.t = "Integer" -> <<3 + sbc>> \o val.bytes
              [] val.t = "String" ->
                    IF len = 0 THEN <<19>>
                    ELSE <<19 + str_bytes_len_sbc>>
                         \o SubSeq(USize(len), 1, str_bytes_len_sbc)
                         \o val.bytes
    IN  write_bytes(c, bytes)

encode_Value(val, c) ==
    LET sbc == significant_bytes_count(val.bytes)
        len == Len(val.bytes)
        str_bytes_len_sbc == 1 + significant_bytes_count(I128(len))
        bytes ==
            CASE val.t = "Boolean" -> val.bytes
              [] val.t = "Float" -> <<2>> \o val.bytes
              [] val.t = "Integer" ->
                    <<3 + sbc>> \o SubSeq(val.bytes, 1, sbc + 1)
              [] val.t = "String" ->
                    IF len = 0 THEN <<19>>
                    ELSE <<19 + str_bytes_len_sbc>>
                         \o SubSeq(USize(len), 1, str_bytes_len_sbc)
                         \o val.bytes
    IN  write_bytes(c, bytes)

encode_Item(item, c) ==
    IF item.kind = "Operator"
    THEN encode_MathOperator(item.op, c)
    ELSE encode_Value(item.val[1], c)

RECURSIVE encode_Script_LastFirst(_, _)
\* an encoder that writes the items of a script last to first
encode_Script_LastFirst(items, c) ==
    IF items = <<>> THEN c
    ELSE encode_Item(Head(items), encode_Script_LastFirst(Tail(items), c))

RECURSIVE encode_Script(_, _)
encode_Script(items, c) ==
    IF items = <<>> THEN c
    ELSE encode_Script(Tail(items), encode_Item(Head(items), c))

to_vec(input) == encode_Script(input, SimpleScriptCodec_default).data

(***************************************************************************)
(* codecs/simple/dec.rs.  A decoder call returns [c, res, val, err]: the   *)
(* codec it leaves, whether it returned Ok or Err or panicked, and the     *)
(* value or the error.                                                     *)
(***************************************************************************)
DecOk(c, v) == [c |-> c, res |-> "Ok", val |-> v, err |-> ""]

DecErr(c, e) == [c |-> c, res |-> "Err", val |-> <<>>, err |-> e]

DecPanic(c, e) == [c |-> c, res |-> "Panic", val |-> <<>>, err |-> e]

peek_byte(c) ==
    IF c.cursor < Len(c.data)
    THEN DecOk(c, c.data[c.cursor + 1])
    ELSE DecErr(c, "Decoder cursor hit end of vector")

read_byte(c) ==
    IF c.cursor < Len(c.data)
    THEN DecOk([c EXCEPT !.cursor = @ + 1], c.data[c.cursor + 1])
    ELSE DecErr(c, "Decoder cursor hit end of vector when reading a single byte")

\* a read_bytes that moves the cursor before it looks at what is left
read_bytes_MovesFirst(c, len) ==
    LET room == LENot(len)
        n == LEToNat(len)
    IN  IF LEIsSmall(room) /\ LEToNat(room) < c.cursor
        THEN DecPanic(c, "cursor + length overflows")
        ELSE IF LEIsSmall(len) /\ c.cursor + n <= Len(c.data)
        THEN DecOk([c EXCEPT !.cursor = @ + n],
                   SubSeq(c.data, c.cursor + 1, c.cursor + n))
        ELSE IF LEIsSmall(len)
        THEN DecErr([c EXCEPT !.cursor = @ + n],
                    "Decoder cursor hit end of vector when reading bytes")
        ELSE DecErr(c, "Decoder cursor hit end of vector when reading bytes")

\* read_bytes with `<` for `<=`: it refuses to read up to the end
read_bytes_Strict(c, len) ==
    LET room == LENot(len)
        n == LEToNat(len)
    IN  IF LEIsSmall(room) /\ LEToNat(room) < c.cursor
        THEN DecPanic(c, "cursor + length overflows")
        ELSE IF LEIsSmall(len) /\ c.cursor + n < Len(c.data)
        THEN DecOk([c EXCEPT !.cursor = @ + n],
                   SubSeq(c.data, c.cursor + 1, c.cursor + n))
        ELSE DecErr(c, "Decoder cursor hit end of vector when reading bytes")

\* len is the usize `length`.  cursor + length overflows when it is above
\* usize::MAX - cursor: a panic with overflow checks, and without them a sum
\* that wraps below cursor, passes the test and panics in the slice.
read_bytes(c, len) ==
    LET room == LENot(len)
        n == LEToNat(len)
    IN  IF LEIsSmall(room) /\ LEToNat(room) < c.cursor
        THEN DecPanic(c, "cursor + length overflows")
        ELSE IF LEIsSmall(len) /\ c.cursor + n <= Len(c.data)
        THEN DecOk([c EXCEPT !.cursor = @ + n],
                   SubSeq(c.data, c.cursor + 1, c.cursor + n))
        ELSE DecErr(c, "Decoder cursor hit end of vector when reading bytes")

\* Value's decode calls this on the bytes 0x03..=0x12 only; below 0x02 the
\* subtraction underflows and above 0x12 the slice is longer than 16 bytes.
decode_i128(c) ==
    LET from_le_bytes(int_length, significant_bytes) ==
            IF significant_bytes.res # "Ok" THEN significant_bytes
            ELSE IF int_length > 16
            THEN DecPanic(significant_bytes.c, "range end index out of range")
            ELSE DecOk(significant_bytes.c,
                       LEZeroExtend(significant_bytes.val, 16))
        with_byte(b) ==
            IF b.res # "Ok" THEN b
            ELSE IF b.val < 2
            THEN DecPanic(b.c, "attempt to subtract with overflow")
            ELSE from_le_bytes(b.val - 2, read_bytes(b.c, USize(b.val - 2)))
    IN  with_byte(read_byte(c))

decode_f64(c) ==
    LET with_byte(b) ==
            IF b.res # "Ok" THEN b ELSE read_bytes(b.c, USize(8))
    IN  with_byte(read_byte(c))

\* b is a continuation byte of UTF-8
Utf8Cont(b) == b >= 128 /\ b <= 191

\* the bytes from position i on are well-formed UTF-8
RECURSIVE Utf8ValidFrom(_, _)
Utf8ValidFrom(bytes, i) ==
    LET n == Len(bytes) - i + 1
        b1 == bytes[i]
    IN  IF n <= 0 THEN TRUE
        ELSE IF b1 < 128 THEN Utf8ValidFrom(bytes, i + 1)
        ELSE IF b1 >= 194 /\ b1 <= 223
        THEN n >= 2 /\ Utf8Cont(bytes[i + 1]) /\ Utf8ValidFrom(bytes, i + 2)
        ELSE IF b1 >= 224 /\ b1 <= 239
        THEN /\ n >= 3
             /\ Utf8Cont(bytes[i + 1])
             /\ b1 = 224 => bytes[i + 1] >= 160
             /\ b1 = 237 => bytes[i + 1] <= 159
             /\ Utf8Cont(bytes[i + 2])
             /\ Utf8ValidFrom(bytes, i + 3)
        ELSE IF b1 >= 240 /\ b1 <= 244
        THEN /\ n >= 4
             /\ Utf8Cont(bytes[i + 1])
             /\ b1 = 240 => bytes[i + 1] >= 144
             /\ b1 = 244 => bytes[i + 1] <= 143
             /\ Utf8Cont(bytes[i + 2])
             /\ Utf8Cont(bytes[i + 3])
             /\ Utf8ValidFrom(bytes, i + 4)
        ELSE FALSE

\* String::from_utf8 accepts the bytes
Utf8Valid(bytes) == Utf8ValidFrom(bytes, 1)

\* Value's decode calls this on the bytes 0x13..=0x79 only.
decode_string(c) ==
    LET from_utf8(bytes) ==
            IF bytes.res # "Ok" THEN bytes
            ELSE IF Utf8Valid(bytes.val) THEN DecOk(bytes.c, bytes.val)
            ELSE DecErr(bytes.c, "Not a valid UTF-8 string")
        with_length(length_length, length_bytes) ==
            IF length_bytes.res # "Ok" THEN length_bytes
            ELSE IF length_length > 8
            THEN DecPanic(length_bytes.c, "range end index out of range")
            ELSE from_utf8(read_bytes(length_bytes.c,
                                      LEZeroExtend(length_bytes.val, 8)))
        with_byte(b) ==
            IF b.res # "Ok" THEN b
            ELSE IF b.val < 19
            THEN DecPanic(b.c, "attempt to subtract with overflow")
            ELSE with_length(b.val - 19, read_bytes(b.c, USize(b.val - 19)))
    IN  with_byte(read_byte(c))

\* decode_item calls this on the bytes from 0x80 up only.
decode_MathOperator(c) ==
    LET with_byte(b) ==
            IF b.res # "Ok" THEN b
            ELSE IF b.val < 128
            THEN DecPanic(b.c, "attempt to subtract with overflow")
            ELSE IF \E op \in MathOperator : discriminant(op) = b.val - 128
            THEN DecOk(b.c, CHOOSE op \in MathOperator :
                                discriminant(op) = b.val - 128)
            ELSE DecErr(b.c, "Unsupported MathOperator")
    IN  with_byte(read_byte(c))

decode_Value(c) ==
    LET as_boolean(r, b) == IF r.res = "Ok" THEN DecOk(r.c, Boolean(b)) ELSE r
        as_float(r) == IF r.res = "Ok" THEN DecOk(r.c, Float(r.val)) ELSE r
        as_integer(r) == IF r.res = "Ok" THEN DecOk(r.c, Integer(r.val)) ELSE r
        as_string(r) == IF r.res = "Ok" THEN DecOk(r.c, String(r.val)) ELSE r
        match(d) ==
            IF d.res # "Ok" THEN d
            ELSE IF d.val \in {0, 1} THEN as_boolean(read_byte(c), d.val = 1)
            ELSE IF d.val = 2 THEN as_float(decode_f64(c))
            ELSE IF d.val >= 3 /\ d.val <= 18 THEN as_integer(decode_i128(c))
            ELSE IF d.val >= 19 /\ d.val <= 121 THEN as_string(decode_string(c))
            ELSE DecErr(c, "Unsupported value discriminant")
    IN  match(peek_byte(c))

\* a decode_item that decodes a value and leaves the cursor before it
decode_item_LeavesValue(c) ==
    LET as_value(r) == IF r.res = "Ok" THEN DecOk(c, Value(r.val)) ELSE r
        as_operator(r) ==
            IF r.res = "Ok" THEN DecOk(r.c, Operator(r.val)) ELSE r
        with_byte(byte) ==
            IF byte.res # "Ok" THEN byte
            ELSE IF byte.val < 128 THEN as_value(decode_Value(c))
            ELSE as_operator(decode_MathOperator(c))
    IN  with_byte(peek_byte(c))

\* decode_item reading the first byte where it should peek at it
decode_item_Consuming(c) ==
    LET as_value(r) == IF r.res = "Ok" THEN DecOk(r.c, Value(r.val)) ELSE r
        as_operator(r) ==
            IF r.res = "Ok" THEN DecOk(r.c, Operator(r.val)) ELSE r
        with_byte(byte) ==
            IF byte.res # "Ok" THEN byte
            ELSE IF byte.val < 128 THEN as_value(decode_Value(byte.c))
            ELSE as_operator(decode_MathOperator(byte.c))
    IN  with_byte(read_byte(c))

decode_item(c) ==
    LET as_value(r) == IF r.res = "Ok" THEN DecOk(r.c, Value(r.val)) ELSE r
        as_operator(r) ==
            IF r.res = "Ok" THEN DecOk(r.c, Operator(r.val)) ELSE r
        with_byte(byte) ==
            IF byte.res # "Ok" THEN byte
            ELSE IF byte.val < 128 THEN as_value(decode_Value(c))
            ELSE as_operator(decode_MathOperator(c))
    IN  with_byte(peek_byte(c))

\* the while loop of decode_script: an item that fails to decode is
\* unwrapped, which panics
RECURSIVE decode_script_loop(_, _)
decode_script_loop(c, items) ==
    LET push_item(item) ==
            IF item.res = "Ok"
            THEN decode_script_loop(item.c, Append(items, item.val))
            ELSE DecPanic(item.c, item.err)
    IN  IF bytes_left(c) > 0 THEN push_item(decode_item(c))
        ELSE DecOk(c, items)

decode_script(c) == decode_script_loop(c, <<>>)

from_vec(input) == decode_script(from_data(input))

(***************************************************************************)
(* The stand-alone ConditionStack and its vector of booleans.              *)
(***************************************************************************)
CondPushBack(b) ==
    /\ cond.stack_size # U32(MaxNesting)
    /\ cond' = push_back(cond, b)
    /\ naive' = NaivePush(naive, b)
    /\ cond_ret' = "()"
    /\ UNCHANGED <<machineVars, codecVars, valueVars>>

CondPopBack ==
    /\ cond' = pop_back(cond).cs
    /\ cond_ret' = pop_back(cond).ret
    /\ naive' = NaivePop(naive)
    /\ UNCHANGED <<machineVars, codecVars, valueVars>>

CondToggleTop ==
    /\ cond' = toggle_top(cond).cs
    /\ cond_ret' = toggle_top(cond).ret
    /\ naive' = NaiveToggle(naive)
    /\ UNCHANGED <<machineVars, codecVars, valueVars>>

NextCond ==
    \/ \E b \in BOOLEAN : CondPushBack(b)
    \/ CondPopBack
    \/ CondToggleTop

(***************************************************************************)
(* The ConditionStack at the deepest nestings a u32 can count: stack_size  *)
(* within DeepLevels of u32::MAX.  `self.stack_size += 1` at u32::MAX      *)
(* panics in a build with overflow checks, after first_false_pos has been  *)
(* written, and wraps to 0 in a build without them.  The vector of         *)
(* booleans is not kept at these depths.                                   *)
(***************************************************************************)
\* the stacks u32::MAX - k deep: all true, or with the first false at the
\* bottom or at one of the levels below the top
DeepStacks ==
    UNION {{[stack_size |-> LENot(U32(k)), first_false_pos |-> ffp] :
               ffp \in {NO_FALSE, U32(0)}
                       \cup {LENot(U32(j)) : j \in (k + 1)..(DeepLevels + 1)}} :
           k \in 0..DeepLevels}

DeepPushBack(b) ==
    /\ cond_ret # "panic"
    /\ cond.stack_size # U32(DeepLevels)
    /\ IF cond.stack_size = LENot(U32(0)) /\ vcall.overflow_checks
       THEN /\ cond' = [cond EXCEPT !.first_false_pos =
                                        push_back(cond, b).first_false_pos]
            /\ cond_ret' = "panic"
       ELSE /\ cond' = push_back(cond, b)
            /\ cond_ret' = "()"
    /\ UNCHANGED <<naive, machineVars, codecVars, valueVars>>

DeepPopBack ==
    /\ cond_ret # "panic"
    /\ cond.stack_size # LENot(U32(DeepLevels))
    /\ CondPopBack

DeepToggleTop ==
    /\ cond_ret # "panic"
    /\ CondToggleTop

\* a panic ends the thread
NextCondDeep ==
    \/ \E b \in BOOLEAN : DeepPushBack(b)
    \/ DeepPopBack
    \/ DeepToggleTop

(***************************************************************************)
(* The machine, driven by single items and by whole scripts.               *)
(***************************************************************************)
MachineValues == {1, 2}

MachineItems ==
    {Value(v) : v \in MachineValues} \cup {Operator(o) : o \in CondOps}

RECURSIVE SeqsUpTo(_, _)
\* the sequences over S of length at most n
SeqsUpTo(S, n) ==
    IF n = 0 THEN {<<>>}
    ELSE LET shorter == SeqsUpTo(S, n - 1)
         IN  shorter \cup {Append(q, x) : q \in shorter, x \in S}

MachineScripts == SeqsUpTo(MachineItems, MaxScriptLen)

RerunScripts == SeqsUpTo(MachineItems, MaxRerunLen)

\* the machine the variables hold
Machine == [stack |-> stack, if_stack |-> if_stack]

\* what one hook invocation does to the per-level record of the conditionals
LevelsStep(lv, h) ==
    CASE h.op = "IF_TRUE" -> Append(lv, [pushed |-> TRUE, now |-> TRUE])
      [] h.op = "IF_FALSE" -> Append(lv, [pushed |-> FALSE, now |-> FALSE])
      [] h.op = "ELSE" ->
            IF lv = <<>> THEN lv
            ELSE [lv EXCEPT ![Len(lv)].now = ~lv[Len(lv)].now]
      [] h.op = "ENDIF" ->
            IF lv = <<>> THEN lv ELSE SubSeq(lv, 1, Len(lv) - 1)
      [] OTHER -> lv

RECURSIVE LevelsAfter(_, _)
LevelsAfter(lv, hooks) ==
    IF hooks = <<>> THEN lv
    ELSE LevelsAfter(LevelsStep(lv, Head(hooks)), Tail(hooks))

\* the boolean vector the machine's condition stack stands for
Branches == [i \in 1..Len(levels) |-> levels[i].now]

Held == Len(stack.main) + Len(stack.alt)

NumValues(items) == Cardinality({i \in 1..Len(items) : items[i].kind = "Value"})

NumIfs(items) ==
    Cardinality({i \in 1..Len(items) : items[i].op \in {"IF_TRUE", "IF_FALSE"}})

\* the call stays within the bounds of the model
Fits(items) ==
    /\ Held + NumValues(items) <= MaxStack
    /\ Len(levels) + NumIfs(items) <= MaxDepth

\* the machine is dropped and a new one constructed
New ==
    /\ stack' = Machine_new.stack
    /\ if_stack' = Machine_new.if_stack
    /\ levels' = <<>>
    /\ call' = [op |-> "new", items |-> <<>>]
    /\ ret' = Usize(0)
    /\ hook_log' = <<>>
    /\ UNCHANGED <<condVars, codecVars, valueVars>>

\* Machine::stack_length
StackLength ==
    /\ call' = [op |-> "stack_length", items |-> <<>>]
    /\ ret' = Usize(stack_length(Machine))
    /\ hook_log' = <<>>
    /\ UNCHANGED <<stack, if_stack, levels, condVars, codecVars, valueVars>>

Operate(item) ==
    /\ Fits(<<item>>)
    /\ \E r \in {operate(Machine, item)} :
           /\ stack' = r.m.stack
           /\ if_stack' = r.m.if_stack
           /\ ret' = r.ret
           /\ hook_log' = r.hooks
           /\ levels' = LevelsAfter(levels, r.hooks)
    /\ call' = [op |-> "operate", items |-> <<item>>]
    /\ UNCHANGED <<condVars, codecVars, valueVars>>

RunScript(items) ==
    /\ Fits(items)
    /\ \E r \in {run_script(Machine, items)} :
           /\ stack' = r.m.stack
           /\ if_stack' = r.m.if_stack
           /\ ret' = r.ret
           /\ hook_log' = r.hooks
           /\ levels' = LevelsAfter(levels, r.hooks)
    /\ call' = [op |-> "run_script", items |-> items]
    /\ UNCHANGED <<condVars, codecVars, valueVars>>

\* run_script on a machine just constructed
RunScriptNew ==
    /\ call.op = "new"
    /\ \E items \in MachineScripts : RunScript(items)

\* run_script on a used machine, whose length has just been read
RunScriptUsed ==
    /\ call.op = "stack_length"
    /\ \E items \in RerunScripts : RunScript(items)

Next ==
    \/ New
    \/ StackLength
    \/ \E item \in MachineItems : Operate(item)
    \/ RunScriptNew
    \/ RunScriptUsed

(***************************************************************************)
(* The Stack, driven on its own through its public methods.  A call that   *)
(* panics ends the thread: nothing is called after it.                     *)
(***************************************************************************)
StackPush(v) ==
    /\ ret # Panic
    /\ length(stack) < MaxStack
    /\ stack' = push(stack, v)
    /\ call' = [op |-> "push", items |-> <<Value(v)>>]
    /\ ret' = Usize(0)
    /\ UNCHANGED <<if_stack, levels, hook_log, condVars, codecVars, valueVars>>

StackPop ==
    /\ ret # Panic
    /\ \E r \in {pop(stack)} :
           /\ stack' = r.stack
           /\ ret' = IF r.panic THEN Panic ELSE Ok(r.val)
    /\ call' = [op |-> "pop", items |-> <<>>]
    /\ UNCHANGED <<if_stack, levels, hook_log, condVars, codecVars, valueVars>>

StackPopIntoAlt ==
    /\ ret # Panic
    /\ Len(stack.alt) < MaxStack
    /\ \E r \in {pop_into_alt(stack)} :
           /\ stack' = r.stack
           /\ ret' = IF r.panic THEN Panic ELSE Usize(0)
    /\ call' = [op |-> "pop_into_alt", items |-> <<>>]
    /\ UNCHANGED <<if_stack, levels, hook_log, condVars, codecVars, valueVars>>

StackPushFromAlt ==
    /\ ret # Panic
    /\ length(stack) < MaxStack
    /\ \E r \in {push_from_alt(stack)} :
           /\ stack' = r.stack
           /\ ret' = IF r.panic THEN Panic ELSE Usize(0)
    /\ call' = [op |-> "push_from_alt", items |-> <<>>]
    /\ UNCHANGED <<if_stack, levels, hook_log, condVars, codecVars, valueVars>>

StackTopmost ==
    /\ ret # Panic
    /\ ret' = Ok(topmost(stack))
    /\ call' = [op |-> "topmost", items |-> <<>>]
    /\ UNCHANGED <<stack, if_stack, levels, hook_log, condVars, codecVars, valueVars>>

StackLengthOf ==
    /\ ret # Panic
    /\ ret' = Usize(length(stack))
    /\ call' = [op |-> "length", items |-> <<>>]
    /\ UNCHANGED <<stack, if_stack, levels, hook_log, condVars, codecVars, valueVars>>

NextStack ==
    \/ \E v \in MachineValues : StackPush(v)
    \/ StackPop
    \/ StackPopIntoAlt
    \/ StackPushFromAlt
    \/ StackTopmost
    \/ StackLengthOf

(***************************************************************************)
(* The operators of Value, applied to operands of every pair of types.     *)
(***************************************************************************)
ValueOperands ==
    {Boolean(b) : b \in BOOLEAN}
    \cup {Float(as_f64(I128(n))) : n \in {0, 2, 0 - 3}}
    \cup {Integer(n) : n \in {I128(0), I128(2), I128(0 - 3), I128_MAX, I128_MIN}}
    \cup {String(u) : u \in {<<>>, <<65>>}}

\* !x
ValueNot(x, overflow_checks) ==
    /\ vcall.op = "none"
    /\ vcall' = [op |-> "not", args |-> <<x>>,
                 overflow_checks |-> overflow_checks]
    /\ vret' = not(x, overflow_checks)
    /\ UNCHANGED <<condVars, machineVars, codecVars>>

\* a + b
ValueAdd(a, b, overflow_checks) ==
    /\ vcall.op = "none"
    /\ vcall' = [op |-> "add", args |-> <<a, b>>,
                 overflow_checks |-> overflow_checks]
    /\ vret' = add(a, b, overflow_checks)
    /\ UNCHANGED <<condVars, machineVars, codecVars>>

\* a * b
ValueMul(a, b, overflow_checks) ==
    /\ vcall.op = "none"
    /\ vcall' = [op |-> "mul", args |-> <<a, b>>,
                 overflow_checks |-> overflow_checks]
    /\ vret' = mul(a, b, overflow_checks)
    /\ UNCHANGED <<condVars, machineVars, codecVars>>

\* a - b
ValueSub(a, b, overflow_checks) ==
    /\ vcall.op = "none"
    /\ vcall' = [op |-> "sub", args |-> <<a, b>>,
                 overflow_checks |-> overflow_checks]
    /\ vret' = sub(a, b, overflow_checks)
    /\ UNCHANGED <<condVars, machineVars, codecVars>>

NextValue ==
    \E a, b \in ValueOperands, overflow_checks \in BOOLEAN :
        \/ ValueNot(a, overflow_checks)
        \/ ValueAdd(a, b, overflow_checks)
        \/ ValueMul(a, b, overflow_checks)
        \/ ValueSub(a, b, overflow_checks)

(***************************************************************************)
(* The codec, driven through a round trip: a script is handed to to_vec    *)
(* and the bytes it returns are handed to from_vec.                        *)
(***************************************************************************)
\* the text "Hello, World!" of the repository's example script, in UTF-8
HelloWorld == <<72, 101, 108, 108, 111, 44, 32, 87, 111, 114, 108, 100, 33>>

CodecIntegers ==
    {I128(0), I128(1), I128(255), I128(256), I128(257), I128(65535),
     I128(65536), I128(0 - 1), I128(0 - 256), I128_MAX, I128_MIN}

\* a text of 256 bytes, each the letter z
LongText == [i \in 1..256 |-> 122]

CodecStrings == {<<>>, <<65>>, <<195, 169>>, HelloWorld, LongText}

CodecValues ==
    {Boolean(b) : b \in BOOLEAN}
    \cup {Integer(n) : n \in CodecIntegers}
    \cup {String(u) : u \in CodecStrings}

CodecItems ==
    {Value(v) : v \in CodecValues} \cup {Operator(o) : o \in MathOperator}

CodecScripts == SeqsUpTo(CodecItems, MaxCodecItems)

\* Encoder::to_vec(&script)
ToVec ==
    /\ phase = "script"
    /\ codec' = [data |-> to_vec(script), cursor |-> 0]
    /\ phase' = "encoded"
    /\ UNCHANGED <<script, decoded, reencoded, dcall>>
    /\ UNCHANGED <<condVars, machineVars, valueVars>>

\* Decoder::from_vec(bytes), on the bytes to_vec returned
FromVec ==
    /\ phase = "encoded"
    /\ \E r \in {from_vec(codec.data)} :
           /\ codec' = r.c
           /\ decoded' = [res |-> r.res, val |-> r.val, err |-> r.err]
    /\ phase' = "decoded"
    /\ UNCHANGED <<script, reencoded, dcall>>
    /\ UNCHANGED <<condVars, machineVars, valueVars>>

\* Encoder::to_vec(&decoded), on the script from_vec returned
ToVecDecoded ==
    /\ phase = "decoded"
    /\ decoded.res = "Ok"
    /\ reencoded' = to_vec(decoded.val)
    /\ phase' = "reencoded"
    /\ UNCHANGED <<script, codec, decoded, dcall>>
    /\ UNCHANGED <<condVars, machineVars, valueVars>>

NextCodec == ToVec \/ FromVec \/ ToVecDecoded

(***************************************************************************)
(* The machine made with simple_math_op_sys: a script is run on the new    *)
(* machine, and then an item, or a value and an operator, are operated.    *)
(* A panic ends the thread.                                                *)
(***************************************************************************)
\* example_script() of the codec tests; 3.14 is the f64 0x40091EB851EB851F
example_script ==
    <<Value(Integer(I128(1))), Value(Integer(I128(99999999))),
      Operator("Add"), Value(Float(<<31, 133, 235, 81, 184, 30, 9, 64>>)),
      Operator("Mul"), Value(String(HelloWorld)), Value(String(<<>>))>>

\* the script of test_one_plus_one_equals_two, for the integers a, b and c
sum_equals(a, b, c) ==
    <<Value(Integer(I128(a))), Value(Integer(I128(b))), Operator("Add"),
      Value(Integer(I128(c))), Operator("Equal")>>

\* machine.run_script(&items) on the new machine
MathRunScript ==
    /\ call.op = "new"
    /\ \E items \in
            SeqsUpTo({Value(Integer(n)) : n \in {I128(1), I128(2), I128(0 - 3),
                                                 I128_MAX, I128_MIN}}
                     \cup {Operator(o) : o \in MathOperator}, MaxMathLen)
            \cup {example_script}
            \cup {sum_equals(a, b, c) : a, b \in {1, 0 - 3}, c \in {2, 0 - 2}} :
           /\ call' = [op |-> "run_script", items |-> items]
           /\ \E r \in {run_script(Machine, items)} :
                  /\ stack' = r.m.stack
                  /\ if_stack' = r.m.if_stack
                  /\ ret' = r.ret
                  /\ hook_log' = r.hooks
    /\ UNCHANGED <<levels, condVars, codecVars, valueVars>>

\* machine.operate(&item) after the script, and once more with an operator
\* after a value
MathOperate ==
    /\ ret # Panic
    /\ \E item \in
            {Value(Integer(n)) : n \in {I128(1), I128(2), I128(0 - 3), I128_MAX}}
            \cup {Operator(o) : o \in MathOperator} :
           /\ \/ call.op = "run_script"
              \/ /\ call.op = "operate"
                 /\ hook_log = <<>>
                 /\ item.kind = "Operator"
           /\ call' = [op |-> "operate", items |-> <<item>>]
           /\ \E r \in {operate(Machine, item)} :
                  /\ stack' = r.m.stack
                  /\ if_stack' = r.m.if_stack
                  /\ ret' = r.ret
                  /\ hook_log' = r.hooks
    /\ UNCHANGED <<levels, condVars, codecVars, valueVars>>

NextMath == MathRunScript \/ MathOperate

(***************************************************************************)
(* The machine made with pokemon_op_sys: creatures are put into the new    *)
(* machine and commands are operated on it.  A panic ends the thread.      *)
(***************************************************************************)
\* machine.operate(&Item::Value(my_creature))
PokemonPut ==
    /\ ret # Panic
    /\ length(stack) < MaxCreatures
    /\ \E my_creature \in Creature :
           /\ call' = [op |-> "operate", items |-> <<Value(my_creature)>>]
           /\ \E r \in {operate(Machine, Value(my_creature))} :
                  /\ stack' = r.m.stack
                  /\ if_stack' = r.m.if_stack
                  /\ ret' = r.ret
                  /\ hook_log' = r.hooks
    /\ UNCHANGED <<levels, condVars, codecVars, valueVars>>

\* machine.operate(&Item::Operator(command))
PokemonCommand ==
    /\ ret # Panic
    /\ \E command \in Command :
           /\ call' = [op |-> "operate", items |-> <<Operator(command)>>]
           /\ \E r \in {operate(Machine, Operator(command))} :
                  /\ stack' = r.m.stack
                  /\ if_stack' = r.m.if_stack
                  /\ ret' = r.ret
                  /\ hook_log' = r.hooks
    /\ UNCHANGED <<levels, condVars, codecVars, valueVars>>

NextPokemon == PokemonPut \/ PokemonCommand

(***************************************************************************)
(* The decoder, called on bytes that no encoder need have written.  Each   *)
(* call is made on the codec as the call before left it; a panic ends the  *)
(* run.                                                                    *)
(***************************************************************************)
DecodeInputs ==
    SeqsUpTo({0, 1, 3, 20, 122, 130, 133, 255}, MaxInputLen)
    \cup {<<2>> \o [i \in 1..8 |-> 0],
          <<20, 2, 195, 169>>,
          <<4, 0, 1, 130>>,
          <<27>> \o [i \in 1..8 |-> 255],
          <<28>> \o [i \in 1..9 |-> 0]}

Decoded(op, len, r) ==
    /\ dcall' = [op |-> op, len |-> len, c |-> codec]
    /\ codec' = r.c
    /\ decoded' = [res |-> r.res, val |-> r.val, err |-> r.err]
    /\ UNCHANGED <<script, reencoded, phase>>
    /\ UNCHANGED <<condVars, machineVars, valueVars>>

\* codec.peek_byte()
PeekByte ==
    /\ decoded.res # "Panic"
    /\ \E r \in {peek_byte(codec)} : Decoded("peek_byte", <<>>, r)

\* codec.read_byte()
ReadByte ==
    /\ decoded.res # "Panic"
    /\ \E r \in {read_byte(codec)} : Decoded("read_byte", <<>>, r)

\* codec.read_bytes(length), usize::MAX among the lengths
ReadBytes ==
    /\ decoded.res # "Panic"
    /\ \E len \in {USize(0), USize(1), USize(2), USize(9),
                   LENot(USize(1)), LENot(USize(0))} :
           \E r \in {read_bytes(codec, len)} : Decoded("read_bytes", len, r)

\* codec.decode_item::<MathOperator, Value>()
DecodeItem ==
    /\ decoded.res # "Panic"
    /\ \E r \in {decode_item(codec)} : Decoded("decode_item", <<>>, r)

\* codec.decode_script::<MathOperator, Value>(); on a codec not yet read
\* from, this is from_vec(codec.data)
DecodeScript ==
    /\ decoded.res # "Panic"
    /\ \E r \in {decode_script(codec)} : Decoded("decode_script", <<>>, r)

NextDecode == PeekByte \/ ReadByte \/ ReadBytes \/ DecodeItem \/ DecodeScript

(***************************************************************************)
(* decode_script on a codec not yet read from, one test of its while loop  *)
(* at a time: `decoded` holds the script so far while the loop is running. *)
(***************************************************************************)
\* one test of `self.bytes_left() > 0`, and the body of the loop when it
\* holds: decode_item().unwrap() and script.push(item)
DecodeScriptIteration ==
    /\ decoded.res \in {"None", "Running"}
    /\ dcall' = [op |-> "decode_script", len |-> <<>>, c |-> codec]
    /\ IF bytes_left(codec) > 0
       THEN \E item \in {decode_item(codec)} :
                /\ codec' = item.c
                /\ decoded' =
                       IF item.res = "Ok"
                       THEN [res |-> "Running",
                             val |-> Append(decoded.val, item.val), err |-> ""]
                       ELSE [res |-> "Panic", val |-> <<>>, err |-> item.err]
       ELSE /\ codec' = codec
            /\ decoded' = [res |-> "Ok", val |-> decoded.val, err |-> ""]
    /\ UNCHANGED <<script, reencoded, phase>>
    /\ UNCHANGED <<condVars, machineVars, valueVars>>

(***************************************************************************)
(* Specifications.  Init is the state after construction: an empty         *)
(* ConditionStack, a new Machine, and a codec that holds nothing.          *)
(***************************************************************************)
Init ==
    /\ cond = ConditionStack_default
    /\ naive = <<>>
    /\ cond_ret = "new"
    /\ stack = Machine_new.stack
    /\ if_stack = Machine_new.if_stack
    /\ levels = <<>>
    /\ call = [op |-> "new", items |-> <<>>]
    /\ ret = Usize(0)
    /\ hook_log = <<>>
    /\ script = <<>>
    /\ codec = SimpleScriptCodec_default
    /\ decoded = [res |-> "None", val |-> <<>>, err |-> ""]
    /\ reencoded = <<>>
    /\ dcall = [op |-> "none", len |-> <<>>, c |-> SimpleScriptCodec_default]
    /\ vcall = [op |-> "none", args |-> <<>>, overflow_checks |-> FALSE]
    /\ vret = [res |-> "None", val |-> <<>>]
    /\ phase = "idle"

Spec == Init /\ [][Next]_vars

SpecCond == Init /\ [][NextCond]_vars

\* the deepest condition stacks, in a build with or without overflow checks
InitCondDeep ==
    /\ cond \in DeepStacks
    /\ naive = <<>>
    /\ cond_ret = "new"
    /\ stack = Machine_new.stack
    /\ if_stack = Machine_new.if_stack
    /\ levels = <<>>
    /\ call = [op |-> "new", items |-> <<>>]
    /\ ret = Usize(0)
    /\ hook_log = <<>>
    /\ script = <<>>
    /\ codec = SimpleScriptCodec_default
    /\ decoded = [res |-> "None", val |-> <<>>, err |-> ""]
    /\ reencoded = <<>>
    /\ dcall = [op |-> "none", len |-> <<>>, c |-> SimpleScriptCodec_default]
    /\ vcall \in {[op |-> "none", args |-> <<>>, overflow_checks |-> checks] :
                        checks \in BOOLEAN}
    /\ vret = [res |-> "None", val |-> <<>>]
    /\ phase = "idle"

SpecCondDeep == InitCondDeep /\ [][NextCondDeep]_vars

SpecStack == Init /\ [][NextStack]_vars

SpecValue == Init /\ [][NextValue]_vars

\* the codec's initial states: any script of the bounded set, not yet encoded
InitCodec ==
    /\ cond = ConditionStack_default
    /\ naive = <<>>
    /\ cond_ret = "new"
    /\ stack = Machine_new.stack
    /\ if_stack = Machine_new.if_stack
    /\ levels = <<>>
    /\ call = [op |-> "new", items |-> <<>>]
    /\ ret = Usize(0)
    /\ hook_log = <<>>
    /\ script \in CodecScripts
    /\ codec = SimpleScriptCodec_default
    /\ decoded = [res |-> "None", val |-> <<>>, err |-> ""]
    /\ reencoded = <<>>
    /\ dcall = [op |-> "none", len |-> <<>>, c |-> SimpleScriptCodec_default]
    /\ vcall = [op |-> "none", args |-> <<>>, overflow_checks |-> FALSE]
    /\ vret = [res |-> "None", val |-> <<>>]
    /\ phase = "script"

SpecCodec == InitCodec /\ [][NextCodec]_vars

\* the decoder's initial states: a codec made from any of the inputs
InitDecode ==
    /\ cond = ConditionStack_default
    /\ naive = <<>>
    /\ cond_ret = "new"
    /\ stack = Machine_new.stack
    /\ if_stack = Machine_new.if_stack
    /\ levels = <<>>
    /\ call = [op |-> "new", items |-> <<>>]
    /\ ret = Usize(0)
    /\ hook_log = <<>>
    /\ script = <<>>
    /\ codec \in {from_data(input) : input \in DecodeInputs}
    /\ decoded = [res |-> "None", val |-> <<>>, err |-> ""]
    /\ reencoded = <<>>
    /\ dcall = [op |-> "none", len |-> <<>>, c |-> SimpleScriptCodec_default]
    /\ vcall = [op |-> "none", args |-> <<>>, overflow_checks |-> FALSE]
    /\ vret = [res |-> "None", val |-> <<>>]
    /\ phase = "data"

SpecDecode == InitDecode /\ [][NextDecode]_vars

\* decode_script runs: the thread that called it keeps executing
SpecDecodeLoop ==
    /\ InitDecode
    /\ [][DecodeScriptIteration]_vars
    /\ WF_vars(DecodeScriptIteration)

\* the simple-math machine's initial states: a new machine, in a build with
\* or without overflow checks
InitMath ==
    /\ cond = ConditionStack_default
    /\ naive = <<>>
    /\ cond_ret = "new"
    /\ stack = Machine_new.stack
    /\ if_stack = Machine_new.if_stack
    /\ levels = <<>>
    /\ call = [op |-> "new", items |-> <<>>]
    /\ ret = Usize(0)
    /\ hook_log = <<>>
    /\ script = <<>>
    /\ codec = SimpleScriptCodec_default
    /\ decoded = [res |-> "None", val |-> <<>>, err |-> ""]
    /\ reencoded = <<>>
    /\ dcall = [op |-> "none", len |-> <<>>, c |-> SimpleScriptCodec_default]
    /\ vcall \in {[op |-> "none", args |-> <<>>, overflow_checks |-> checks] :
                        checks \in BOOLEAN}
    /\ vret = [res |-> "None", val |-> <<>>]
    /\ phase = "idle"

SpecMath == InitMath /\ [][NextMath]_vars

\* the evolution machine's initial state: Machine::new(&pokemon_op_sys)
InitPokemon ==
    /\ cond = ConditionStack_default
    /\ naive = <<>>
    /\ cond_ret = "new"
    /\ stack = Machine_new.stack
    /\ if_stack = Machine_new.if_stack
    /\ levels = <<>>
    /\ call = [op |-> "new", items |-> <<>>]
    /\ ret = Usize(0)
    /\ hook_log = <<>>
    /\ script = <<>>
    /\ codec = SimpleScriptCodec_default
    /\ decoded = [res |-> "None", val |-> <<>>, err |-> ""]
    /\ reencoded = <<>>
    /\ dcall = [op |-> "none", len |-> <<>>, c |-> SimpleScriptCodec_default]
    /\ vcall = [op |-> "none", args |-> <<>>, overflow_checks |-> TRUE]
    /\ vret = [res |-> "None", val |-> <<>>]
    /\ phase = "idle"

SpecPokemon == InitPokemon /\ [][NextPokemon]_vars

(***************************************************************************)
(* What the claims compare the machine with: Machine.operate called on     *)
(* each item of a script in turn, by a caller that looks at no result.     *)
(***************************************************************************)
RECURSIVE OperateEach(_, _)
OperateEach(m, items) ==
    IF items = <<>> THEN m
    ELSE OperateEach(operate(m, Head(items)).m, Tail(items))

\* operate succeeds on items[i] when called after items 1..i-1
SucceedsAt(m, items, i) ==
    operate(OperateEach(m, SubSeq(items, 1, i - 1)), items[i]).ret.ok

NoItemFails(m, items) == \A i \in 1..Len(items) : SucceedsAt(m, items, i)

\* the first item of the script on which operate fails
FirstFailure(m, items, i) ==
    /\ i \in 1..Len(items)
    /\ ~SucceedsAt(m, items, i)
    /\ \A j \in 1..(i - 1) : SucceedsAt(m, items, j)

\* the operators among the first n items, in order
RECURSIVE OpsOf(_, _)
OpsOf(items, n) ==
    IF n = 0 THEN <<>>
    ELSE OpsOf(items, n - 1)
         \o (IF items[n].kind = "Operator" THEN <<items[n].op>> ELSE <<>>)

TopOf(main) == IF main = <<>> THEN <<>> ELSE <<main[Len(main)]>>

OperatedValue == call.op = "operate" /\ call.items[1].kind = "Value"

OperatedOperator == call.op = "operate" /\ call.items[1].kind = "Operator"

(***************************************************************************)
(* Claims.                                                                 *)
(***************************************************************************)

C4_ValueFrame ==
    [][OperatedValue' =>
         /\ if_stack' = if_stack
         /\ hook_log' = <<>>
         /\ stack'.alt = stack.alt
         /\ ret'.ok
         /\ IF if_stack.first_false_pos = NO_FALSE
            THEN stack'.main = Append(stack.main, call'.items[1].val[1])
            ELSE stack'.main = stack.main]_vars

\* a Value discarded in an inactive branch, with a value held in alt
C4_Witness ==
    /\ OperatedValue
    /\ if_stack.first_false_pos # NO_FALSE
    /\ stack.alt # <<>>
    /\ ret.ok
    /\ hook_log = <<>>

\* C5: operate(Operator(op)) invokes the hook exactly once, with the
\* machine's stack and condition stack, in every state, inactive branches
\* included.
C5_HookInvokedOnce ==
    [][OperatedOperator' =>
         LET h == op_sys(stack, call'.items[1].op, if_stack)
         IN  /\ hook_log' = <<[op |-> call'.items[1].op, res |-> h.res]>>
             /\ stack' = h.stack
             /\ if_stack' = h.cs]_vars

\* an ELSE that reached the hook at depth two while the outer level was in
\* its untaken branch
C5_Witness ==
    /\ OperatedOperator
    /\ call.items[1].op = "ELSE"
    /\ Len(levels) = 2
    /\ ~levels[1].now /\ levels[2].pushed /\ ~levels[2].now
    /\ hook_log = <<[op |-> "ELSE", res |-> HookOk]>>

\* C6: when the hook fails on item i of a script, run_script returns that
\* error, applies no item after i, and undoes nothing: the stack and the
\* condition stack are as items before i and the failing hook call left them.
C6_StopsAtFirstError ==
    [][call'.op = "run_script" =>
         \A i \in 1..Len(call'.items) :
            FirstFailure(Machine, call'.items, i) =>
               LET before == OperateEach(Machine, SubSeq(call'.items, 1, i - 1))
                   h == op_sys(before.stack, call'.items[i].op, before.if_stack)
               IN  /\ call'.items[i].kind = "Operator"
                   /\ ret' = Err(h.res)
                   /\ stack' = h.stack
                   /\ if_stack' = h.cs
                   /\ [k \in 1..Len(hook_log') |-> hook_log'[k].op]
                         = OpsOf(call'.items, i)]_vars

\* VERIFY failed on the second of three items: it had popped the 2, and the
\* 1 after it was never pushed
C6_Witness ==
    /\ call = [op |-> "run_script",
               items |-> <<Value(2), Operator("VERIFY"), Value(1)>>]
    /\ ret = Err("VerifyFailed")
    /\ stack.main = <<>>

\* C7: on a script no item of which fails, run_script leaves the stack and
\* condition stack that operate called on each item in order leaves, and
\* returns the top of main after the last item (none when main is empty);
\* on the empty script it changes nothing and returns the current top.
C7_RunIsOperateEach ==
    [][(call'.op = "run_script" /\ NoItemFails(Machine, call'.items)) =>
         /\ [stack |-> stack', if_stack |-> if_stack']
               = OperateEach(Machine, call'.items)
         /\ ret'.ok
         /\ ret'.top = TopOf(stack'.main)
         /\ call'.items = <<>> =>
               /\ stack' = stack
               /\ if_stack' = if_stack
               /\ ret'.top = TopOf(stack.main)]_vars

\* a script whose last Value is discarded: the top returned is the first
C7_Witness ==
    /\ call = [op |-> "run_script",
               items |-> <<Value(1), Operator("IF_FALSE"), Value(2)>>]
    /\ ret = Ok(Some(1))
    /\ stack.main = <<1>>

\* C8: operate and run_script return an error only when the hook returned
\* one, and return that very error; a script of Value items alone never
\* fails, whatever the condition stack holds.
C8_ErrorsComeFromHook ==
    call.op \in {"operate", "run_script"} =>
       /\ ~ret.ok =>
             /\ hook_log # <<>>
             /\ hook_log[Len(hook_log)].res # HookOk
             /\ ret = Err(hook_log[Len(hook_log)].res)
       /\ (\A i \in 1..Len(call.items) : call.items[i].kind = "Value") => ret.ok

\* run_script returned the Underflow that VERIFY, its second hook call, gave
C8_Witness ==
    /\ call.op = "run_script"
    /\ Len(hook_log) = 2
    /\ hook_log[2] = [op |-> "VERIFY", res |-> "Underflow"]
    /\ ret = Err("Underflow")

\* C9: a machine just constructed has stack_length() = 0 and an empty,
\* all-true condition stack; a script of n Value items run on it gives
\* stack_length() = n and returns the last value of the script.
C9_NewMachine ==
    [][/\ call.op = "new" =>
             /\ stack_length(Machine) = 0
             /\ is_empty(if_stack)
             /\ all_true(if_stack)
       /\ (/\ call.op = "new"
           /\ call'.op = "run_script"
           /\ \A i \in 1..Len(call'.items) : call'.items[i].kind = "Value") =>
             /\ Len(stack'.main) = Len(call'.items)
             /\ ret'.ok
             /\ ret'.top = IF call'.items = <<>> THEN None
                           ELSE Some(call'.items[Len(call'.items)].val[1])]_vars

\* two Values run on a new machine
C9_Witness ==
    /\ call = [op |-> "run_script", items |-> <<Value(1), Value(2)>>]
    /\ stack_length(Machine) = 2
    /\ ret = Ok(Some(2))

\* C10: codec round trip.  For every script of Boolean, Integer and String
\* values and MathOperator operators, from_vec on the bytes to_vec produced
\* returns Ok with a script equal to the original.  The code does not do
\* this: the counterexample below is the statement, and it is violated.
C10_RoundTrip ==
    phase = "decoded" => decoded.res = "Ok" /\ decoded.val = script

\* C11: byte round trip.  For the bytes b that to_vec produced for a script,
\* to_vec on the script from_vec(b) returned produces b again.  The code
\* does not do this: the counterexample below is the statement, and it is
\* violated.
C11_ByteRoundTrip ==
    phase = "reencoded" => reencoded = codec.data

\* the script handed to to_vec is a single Integer value, and has been encoded
EncodedInteger ==
    /\ phase # "script"
    /\ Len(script) = 1
    /\ script[1].kind = "Value"
    /\ script[1].val[1].t = "Integer"

\* that Integer, as the 16 bytes of its i128
TheInteger == script[1].val[1].bytes

\* C12: a negative integer is encoded with all 16 body bytes under the
\* discriminant 0x12, so that a body shorter than 16 bytes belongs to a
\* non-negative integer and zero-extending it gives the integer back.  The
\* code does not do this: the counterexample below is the statement, and it
\* is violated.
C12_NegativeTakesAllBytes ==
    EncodedInteger =>
        /\ TheInteger[16] >= 128 =>
               codec.data[1] = 18 /\ Len(codec.data) = 17
        /\ Len(codec.data) < 17 =>
               /\ TheInteger[16] < 128
               /\ LEZeroExtend(Tail(codec.data), 16) = TheInteger

\* C13 as stated: significant_bytes_count(v) is the smallest k in 0..15 for
\* which abs(v), shifted right by 8 * (k + 1) bits, is at most 1.
C13_Original ==
    EncodedInteger =>
        LET abs == IF TheInteger[16] < 128 THEN TheInteger
                   ELSE LENeg(TheInteger)
            AtMostOne(k) ==
                \A i \in (k + 2)..16 :
                    IF i = k + 2 THEN abs[i] <= 1 ELSE abs[i] = 0
        IN  /\ AtMostOne(significant_bytes_count(TheInteger))
            /\ \A j \in 0..15 :
                   j < significant_bytes_count(TheInteger) => ~AtMostOne(j)

\* C13, amended: significant_bytes_count(v) is the smallest k in 0..15 for
\* which abs(v), shifted right by 8 * k bits, is at most 256.
C13_SmallestShiftTo256 ==
    EncodedInteger =>
        LET abs == IF TheInteger[16] < 128 THEN TheInteger
                   ELSE LENeg(TheInteger)
            AtMost256(k) ==
                /\ \A i \in (k + 3)..16 : abs[i] = 0
                /\ k + 2 <= 16 =>
                       \/ abs[k + 2] = 0
                       \/ abs[k + 2] = 1 /\ abs[k + 1] = 0
        IN  /\ significant_bytes_count(TheInteger) \in 0..15
            /\ AtMost256(significant_bytes_count(TheInteger))
            /\ \A j \in 0..15 :
                   j < significant_bytes_count(TheInteger) => ~AtMost256(j)

\* 257 has been encoded: it is above 256, so it takes one shift and two
\* body bytes
C13_Witness ==
    /\ EncodedInteger
    /\ TheInteger = I128(257)
    /\ significant_bytes_count(TheInteger) = 1
    /\ codec.data = <<4, 1, 1>>

\* C14: an integer v is encoded as the discriminant 0x03 +
\* significant_bytes_count(v) followed by the low significant_bytes_count(v)
\* + 1 bytes of v, 2 + significant_bytes_count(v) bytes in all; the count of
\* 0 is 0, and the discriminant lies in 0x03..=0x12.
C14_IntegerEncoding ==
    EncodedInteger =>
        /\ codec.data[1] = 3 + significant_bytes_count(TheInteger)
        /\ Len(codec.data) = 2 + significant_bytes_count(TheInteger)
        /\ Tail(codec.data) =
               SubSeq(TheInteger, 1, significant_bytes_count(TheInteger) + 1)
        /\ codec.data[1] >= 3 /\ codec.data[1] <= 18
        /\ TheInteger = I128(0) => codec.data = <<3, 0>>

\* i128::MIN has been encoded: the discriminant is 0x12 and the body is all
\* 16 bytes
C14_Witness ==
    /\ EncodedInteger
    /\ TheInteger = I128_MIN
    /\ codec.data[1] = 18
    /\ Len(codec.data) = 17

\* C15: pop and pop_into_alt on an empty main, and push_from_alt on an empty
\* alt, return a StackUnderflow error value, without panicking, and leave
\* main and alt as they were.  The code does not do this: the counterexample
\* below is the statement, and it is violated.
C15_UnderflowIsError ==
    [][(\/ call'.op \in {"pop", "pop_into_alt"} /\ stack.main = <<>>
        \/ call'.op = "push_from_alt" /\ stack.alt = <<>>) =>
           /\ ret' = Err("StackUnderflow")
           /\ stack' = stack]_vars

\* C16: negating a String, and adding or multiplying a pair of Values other
\* than Boolean/Boolean, Float/Float, Integer/Integer, Integer/Float and
\* Float/Integer, returns a TypeError error value and does not abort.  The
\* code does not do this: the counterexample below is the statement, and it
\* is violated.
C16_TypeErrorIsValue ==
    LET numeric == {"Float", "Integer"}
        mismatched ==
            /\ vcall.op \in {"add", "mul"}
            /\ ~(vcall.args[1].t = "Boolean" /\ vcall.args[2].t = "Boolean")
            /\ ~(vcall.args[1].t \in numeric /\ vcall.args[2].t \in numeric)
    IN  (vcall.op = "not" /\ vcall.args[1].t = "String") \/ mismatched =>
            vret.res = "TypeError"

\* C17: decode_script (and so from_vec) returns an error value, without
\* panicking, when the bytes are not a concatenation of well-formed items.
\* Stated for the bytes whose first item is malformed in one of the four
\* ways the claim lists: a value discriminant in 0x7A..=0x7F, an unknown
\* operator opcode, a body cut short by the end of input, a string body that
\* is not UTF-8.  The code does not do this: the statement is violated.
C17_MalformedIsError ==
    LET input == SubSeq(dcall.c.data, dcall.c.cursor + 1, Len(dcall.c.data))
        b == input[1]
        body == Len(input) - 1
        L == IF b = 20 /\ body >= 1 THEN input[2] ELSE 0
        bad_discriminant == b >= 122 /\ b <= 127
        unknown_opcode == b >= 133
        truncated ==
            \/ b = 2 /\ body < 8
            \/ b >= 3 /\ b <= 18 /\ body < b - 2
            \/ b = 20 /\ body < 1 + L
        not_utf8 ==
            /\ b = 20
            /\ body >= 1 + L
            /\ ~Utf8Valid(SubSeq(input, 3, 2 + L))
    IN  /\ dcall.op = "decode_script"
        /\ input # <<>>
        /\ bad_discriminant \/ unknown_opcode \/ truncated \/ not_utf8
        => decoded.res = "Err"

\* C18: the decoder primitives.  peek_byte fails, with the end-of-vector
\* error, exactly when the cursor is at the end of the data, and never moves
\* the cursor.  read_byte, when it succeeds, advances the cursor by one.
\* read_bytes(n) succeeds exactly when at least n bytes remain; it then
\* returns those n bytes and advances the cursor by n; when it does not
\* succeed (an error, or a panic for an n that overflows cursor + n) the
\* cursor is where it was.
C18_DecoderPrimitives ==
    LET before == dcall.c
        left == Len(before.data) - before.cursor
        n == LEToNat(dcall.len)
        enough == LEIsSmall(dcall.len) /\ n <= left
    IN  /\ dcall.op = "peek_byte" =>
            /\ decoded.res = (IF left = 0 THEN "Err" ELSE "Ok")
            /\ decoded.res = "Err" =>
                   decoded.err = "Decoder cursor hit end of vector"
            /\ codec = before
        /\ dcall.op = "read_byte" /\ decoded.res = "Ok" =>
            codec = [before EXCEPT !.cursor = @ + 1]
        /\ dcall.op = "read_bytes" =>
            /\ decoded.res = "Ok" <=> enough
            /\ decoded.res = "Ok" =>
                /\ decoded.val =
                       SubSeq(before.data, before.cursor + 1, before.cursor + n)
                /\ codec = [before EXCEPT !.cursor = @ + n]
            /\ decoded.res # "Ok" => codec = before

\* read_bytes(2) has read the last two bytes of a three-byte input
C18_Witness ==
    /\ dcall.op = "read_bytes"
    /\ dcall.len = USize(2)
    /\ dcall.c.cursor = 1
    /\ Len(dcall.c.data) = 3
    /\ decoded.res = "Ok"
    /\ codec.cursor = 3

\* C19: for every first byte b in 0x14..=0x79, decoding a value reads b,
\* then b - 0x13 bytes of little-endian length L, then L bytes of payload,
\* and returns a String or fails with a typed error (end of input, invalid
\* UTF-8), for b >= 0x1C too.  The code does not do this: the statement is
\* violated.
C19_StringDecodesOrFails ==
    LET input == SubSeq(dcall.c.data, dcall.c.cursor + 1, Len(dcall.c.data))
    IN  /\ dcall.op = "decode_item"
        /\ input # <<>>
        /\ input[1] >= 20 /\ input[1] <= 121
        => \/ decoded.res = "Err"
           \/ decoded.res = "Ok" /\ decoded.val.val[1].t = "String"

C22_EmptyFails ==
    [][CondPopBack \/ CondToggleTop =>
           IF cond.stack_size = U32(0)
           THEN cond_ret' = "None" /\ cond' = cond
           ELSE cond_ret' = "Some"]_vars

\* pop_back or toggle_top has returned None on the empty condition stack
C22_Witness ==
    /\ cond_ret = "None"
    /\ cond = ConditionStack_default

\* C23: on a non-empty main, pop_into_alt takes the top value off main and
\* puts it on top of alt, leaving the values below in place, so length()
\* drops by one; push_from_alt does the reverse on a non-empty alt; a
\* push_from_alt right after a pop_into_alt gives back both sub-stacks; and
\* length() returns the number of values of main whatever alt holds.
C23_Transfers ==
    [][LET n == Len(stack.main)
           k == Len(stack.alt)
       IN  /\ StackPopIntoAlt /\ n > 0 =>
                /\ stack'.main = SubSeq(stack.main, 1, n - 1)
                /\ stack'.alt = Append(stack.alt, stack.main[n])
                /\ length(stack') = length(stack) - 1
                /\ push_from_alt(stack') = [stack |-> stack, panic |-> FALSE]
           /\ StackPushFromAlt /\ k > 0 =>
                /\ stack'.main = Append(stack.main, stack.alt[k])
                /\ stack'.alt = SubSeq(stack.alt, 1, k - 1)
                /\ length(stack') = length(stack) + 1
           /\ StackLengthOf => ret' = Usize(n)]_vars

\* push_from_alt has brought back the second of two values moved to alt
C23_Witness ==
    /\ call.op = "push_from_alt"
    /\ ret = Usize(0)
    /\ stack = [main |-> <<1, 2>>, alt |-> <<1>>]

\* C24: topmost returns, and changes nothing: None on an empty main, the
\* last value pushed and not yet popped otherwise; and a pop right after a
\* push(v) returns v and leaves the stack as it was before the push.
C24_TopmostAndPushPop ==
    [][/\ StackTopmost =>
            /\ stack' = stack
            /\ ret' = Ok(IF stack.main = <<>> THEN None
                         ELSE Some(stack.main[Len(stack.main)]))
       /\ (\E v \in MachineValues : StackPush(v)) =>
            pop(stack') = [stack |-> stack,
                           val |-> Some(call'.items[1].val[1]),
                           panic |-> FALSE]]_vars

\* topmost has returned the second of two different values
C24_Witness ==
    /\ call.op = "topmost"
    /\ ret = Ok(Some(2))
    /\ stack.main = <<1, 2>>

\* C25 (as stated): running example_script on the new machine made with
\* simple_math_op_sys ends with the top of the stack String("") and the main
\* stack 5 values long.
C25_Original ==
    call = [op |-> "run_script", items |-> example_script]
        => /\ ret = Ok(Some(String(<<>>)))
           /\ Len(stack.main) = 5

\* C25 (amended): running example_script on the new machine made with
\* simple_math_op_sys ends with the top of the stack String("") and the main
\* stack 3 values long: Add and Mul each take two values and leave one, so
\* the stack is Float(314000000.0), String("Hello, World!"), String("").
C25_ExampleScript ==
    call = [op |-> "run_script", items |-> example_script]
        => /\ ret = Ok(Some(String(<<>>)))
           /\ length(stack) = 3
           /\ stack.main = <<Float(<<0, 0, 0, 128, 66, 183, 178, 65>>),
                             String(HelloWorld), String(<<>>)>>

C25_Witness ==
    /\ call = [op |-> "run_script", items |-> example_script]
    /\ ret = Ok(Some(String(<<>>)))
    /\ length(stack) = 3

\* C26: on the new machine made with simple_math_op_sys, the script
\* Int(a), Int(b), Add leaves exactly one value, Integer(a + b), and returns
\* it as the top; Int(c), Equal after it leave exactly one value,
\* Boolean(c = a + b), whether the five items are one script or the last two
\* are operated one by one; and an Add, Mul, Sub or Equal that returns
\* leaves the stack one value shorter.
C26_AddThenEqual ==
    [][/\ \A a, b \in {1, 2, 0 - 3} :
            call' = [op |-> "run_script",
                     items |-> <<Value(Integer(I128(a))),
                                 Value(Integer(I128(b))), Operator("Add")>>]
                => /\ stack'.main = <<Integer(I128(a + b))>>
                   /\ ret' = Ok(Some(Integer(I128(a + b))))
       /\ \A a, b \in {1, 0 - 3}, c \in {2, 0 - 2} :
            call' = [op |-> "run_script", items |-> sum_equals(a, b, c)]
                => /\ stack'.main = <<Boolean(c = a + b)>>
                   /\ ret' = Ok(Some(Boolean(c = a + b)))
       /\ \A sum, c \in (0 - 6)..4 :
            /\ call' = [op |-> "operate", items |-> <<Operator("Equal")>>]
            /\ stack.main = <<Integer(I128(sum)), Integer(I128(c))>>
            => /\ stack'.main = <<Boolean(c = sum)>>
               /\ ret' = Ok(Some(Boolean(c = sum)))
       /\ /\ call'.op = "operate"
          /\ call'.items[1] \in {Operator(o) : o \in {"Add", "Mul", "Sub", "Equal"}}
          /\ ret' # Panic
          => length(stack') = length(stack) - 1]_vars

C26_Witness ==
    /\ call = [op |-> "run_script", items |-> sum_equals(1, 1, 2)]
    /\ stack.main = <<Boolean(TRUE)>>
    /\ ret = Ok(Some(Boolean(TRUE)))

\* C27: the bytes to_vec returns for a script are the bytes of its items one
\* after the other in script order, so that however the script is split in
\* two, its encoding is the encoding of the first part followed by the
\* encoding of the second; the script with no items encodes to no bytes, and
\* no bytes decode to the script with no items.
C27_Concatenation ==
    /\ phase \in {"encoded", "decoded", "reencoded"} =>
          /\ \A k \in 0..Len(script) :
                codec.data = to_vec(SubSeq(script, 1, k))
                             \o to_vec(SubSeq(script, k + 1, Len(script)))
          /\ script = <<>> => codec.data = <<>>
    /\ phase \in {"decoded", "reencoded"} /\ codec.data = <<>> =>
          decoded = [res |-> "Ok", val |-> <<>>, err |-> ""]

C27_Witness ==
    /\ phase = "decoded"
    /\ Len(script) = 2
    /\ to_vec(<<script[1]>>) # to_vec(<<script[2]>>)
    /\ codec.data = to_vec(<<script[1]>>) \o to_vec(<<script[2]>>)

\* C28: for a non-negative integer v, every byte of v above its low
\* significant_bytes_count(v) + 1 bytes is zero, so that the body the encoder
\* wrote, extended with zero bytes, is v again, and the decoder returns v;
\* 256 and 65536 are among these integers.  The code does not do this: the
\* counterexample below is the statement, and it is violated.
C28_TruncationLossless ==
    EncodedInteger /\ TheInteger[16] < 128 =>
        /\ \A i \in (significant_bytes_count(TheInteger) + 2)..16 :
               TheInteger[i] = 0
        /\ LEZeroExtend(Tail(codec.data), 16) = TheInteger
        /\ phase = "decoded" =>
               decoded = [res |-> "Ok", val |-> script, err |-> ""]

\* C29: for a script of non-empty strings, the length prefix the encoder
\* wrote for the first string, read the way the decoder reads it (the
\* length_length bytes after the discriminant, little-endian), is the byte
\* length of the string, and the decoder returns the strings of the script,
\* each starting where the one before ended; a string of 256 bytes is among
\* them.  The code does not do this: the counterexample below is the
\* statement, and it is violated.
C29_LengthPrefixReadBack ==
    /\ phase # "script"
    /\ script # <<>>
    /\ \A i \in 1..Len(script) :
           /\ script[i].kind = "Value"
           /\ script[i].val[1].t = "String"
           /\ script[i].val[1].bytes # <<>>
    => /\ LEZeroExtend(SubSeq(codec.data, 2, codec.data[1] - 19 + 1), 8)
              = USize(Len(script[1].val[1].bytes))
       /\ phase = "decoded" =>
              /\ decoded = [res |-> "Ok", val |-> script, err |-> ""]
              /\ codec.cursor = Len(codec.data)

\* C30: a - b on Booleans is Boolean(a OR NOT b), and on Integers whose
\* difference an i128 can hold it is Integer(a - b), also when b is
\* i128::MIN.  The difference is taken here on 17 bytes, where it cannot
\* overflow.  The code does not do this: the counterexample below is the
\* statement, and it is violated.
C30_SubIsDifference ==
    LET a == vcall.args[1]
        b == vcall.args[2]
        wide(n) == n.bytes \o <<IF n.bytes[16] < 128 THEN 0 ELSE 255>>
        difference == LEAdd(wide(a), LENot(wide(b)), 1)
        representable ==
            difference[17] = (IF difference[16] < 128 THEN 0 ELSE 255)
    IN  /\ vcall.op = "sub" /\ a.t = "Boolean" /\ b.t = "Boolean" =>
               vret = ValueOk(Boolean(a.bytes = <<1>> \/ b.bytes = <<0>>))
        /\ vcall.op = "sub" /\ a.t = "Integer" /\ b.t = "Integer"
           /\ representable =>
               vret = ValueOk(Integer(SubSeq(difference, 1, 16)))

\* C31: the decoder is single-pass.  Before and after every call of
\* peek_byte, read_byte, read_bytes, decode_item and decode_script the cursor
\* lies in 0..data.len(), so that bytes_left does not underflow, and no call
\* moves the cursor back or changes the data.
C31_SinglePass ==
    [][/\ codec.cursor \in 0..Len(codec.data)
       /\ codec'.cursor \in 0..Len(codec'.data)
       /\ bytes_left(codec') \in 0..Len(codec'.data)
       /\ codec'.cursor >= codec.cursor
       /\ codec'.data = codec.data]_vars

\* decode_item has been called in the middle of the data and has read up to
\* its end
C31_Witness ==
    /\ dcall.op = "decode_item"
    /\ dcall.c.cursor > 0
    /\ codec.cursor > dcall.c.cursor
    /\ codec.cursor = Len(codec.data)
    /\ decoded.res = "Ok"

\* C32: read_bytes(length) with a length above the bytes that remain returns
\* the end-of-vector error and leaves the codec as it was, whatever the
\* length: usize::MAX and usize::MAX - 1 are among the lengths, as is the
\* length that decode_string reads from eight 0xFF bytes.  The code does not
\* do this: the counterexample below is the statement, and it is violated.
C32_ReadBytesReportsEof ==
    /\ dcall.op = "read_bytes"
       /\ ~(LEIsSmall(dcall.len)
            /\ LEToNat(dcall.len) <= Len(dcall.c.data) - dcall.c.cursor)
       => /\ decoded.res = "Err"
          /\ decoded.err = "Decoder cursor hit end of vector when reading bytes"
          /\ codec = dcall.c
    /\ dcall.op = "decode_item"
       /\ dcall.c.data = <<27>> \o [i \in 1..8 |-> 255]
       /\ dcall.c.cursor = 0
       => decoded.res = "Err"

\* C33: decode_script terminates on every finite byte sequence.  Every test
\* of its loop either decodes an item and moves the cursor on by one byte or
\* more, or ends the decoding (the data is used up, or the item failed to
\* decode); the items decoded never outnumber the bytes read, so the loop
\* body runs data.len() times at most; the decoding does end, with what
\* decode_script returns for the data; and when it ends in Ok the cursor is
\* at data.len().
C33_Terminates ==
    /\ [][\/ /\ decoded'.res = "Running"
             /\ codec'.cursor >= codec.cursor + 1
             /\ Len(decoded'.val) = Len(decoded.val) + 1
          \/ decoded'.res \in {"Ok", "Panic"}]_vars
    /\ [](/\ Len(decoded.val) <= codec.cursor
          /\ codec.cursor <= Len(codec.data)
          /\ decoded.res = "Ok" => codec.cursor = Len(codec.data)
          /\ decoded.res \in {"Ok", "Panic"} =>
                 decoded = [res |-> from_vec(codec.data).res,
                            val |-> from_vec(codec.data).val,
                            err |-> from_vec(codec.data).err])
    /\ <>(decoded.res \in {"Ok", "Panic"})

\* decode_script has ended in Ok after three runs of the loop body
C33_Witness ==
    /\ dcall.op = "decode_script"
    /\ decoded.res = "Ok"
    /\ Len(decoded.val) = 3
    /\ codec.cursor = Len(codec.data)

C35_ToggleTwice ==
    [][CondToggleTop /\ ~is_empty(cond) =>
           /\ cond_ret' = "Some"
           /\ toggle_top(cond').ret = "Some"
           /\ toggle_top(cond').cs = cond
           /\ (\E i \in 1..(Len(naive) - 1) : ~naive[i]) => cond' = cond]_vars

\* toggle_top has returned at the deepest nesting of the model, the first
\* level being false: no push or pop ends there with Some
C35_Witness ==
    /\ Len(naive) = MaxNesting
    /\ cond_ret = "Some"
    /\ ~naive[1]
    /\ cond = [stack_size |-> U32(MaxNesting), first_false_pos |-> U32(0)]

C37_PushBackAtAnyDepth ==
    [][/\ (\E b \in BOOLEAN : DeepPushBack(b)) =>
              /\ cond_ret' = "()"
              /\ cond'.stack_size = LEInc(cond.stack_size)
              /\ cond'.stack_size # U32(0)
       /\ DeepPushBack(FALSE) /\ all_true(cond) =>
              /\ ~all_true(cond')
              /\ cond'.first_false_pos # NO_FALSE]_vars

\* C38: Sub takes the top value y off the stack first and the value x below
\* it second and pushes y - x: the script Int(x), Int(y), Sub leaves
\* Integer(y - x) alone on the stack and returns it, and Sub operated on a
\* stack that ends in Integer x, Integer y, whose difference y - x an i128
\* can hold, replaces the two by Integer(y - x).  The difference is taken
\* here on 17 bytes, where it cannot overflow.  Add, Mul and Equal operated
\* on a stack that ends in two Integers do what they do on the stack with
\* the two exchanged.
\* The code does not do this when x is i128::MIN and overflow is checked:
\* the counterexample below is the statement, and it is violated.
C38_SubOperandOrder ==
    [][/\ \A x, y \in {1, 2, 0 - 3} :
            call' = [op |-> "run_script",
                     items |-> <<Value(Integer(I128(x))),
                                 Value(Integer(I128(y))), Operator("Sub")>>]
                => /\ stack'.main = <<Integer(I128(y - x))>>
                   /\ ret' = Ok(Some(Integer(I128(y - x))))
       /\ /\ call'.op = "operate"
          /\ call'.items[1].kind = "Operator"
          /\ Len(stack.main) >= 2
          /\ stack.main[Len(stack.main)].t = "Integer"
          /\ stack.main[Len(stack.main) - 1].t = "Integer"
          => LET n == Len(stack.main)
                 x == stack.main[n - 1]
                 y == stack.main[n]
                 wide(v) == v.bytes \o <<IF v.bytes[16] < 128 THEN 0 ELSE 255>>
                 difference == LEAdd(wide(y), LENot(wide(x)), 1)
                 representable ==
                     difference[17] = (IF difference[16] < 128 THEN 0 ELSE 255)
                 exchanged ==
                     [stack EXCEPT !.main = SubSeq(stack.main, 1, n - 2)
                                            \o <<y, x>>]
             IN  /\ call'.items[1] = Operator("Sub") /\ representable =>
                        /\ stack'.main = SubSeq(stack.main, 1, n - 2)
                               \o <<Integer(SubSeq(difference, 1, 16))>>
                        /\ ret' = Ok(Some(Integer(SubSeq(difference, 1, 16))))
                 /\ call'.items[1] \in {Operator("Add"), Operator("Mul"),
                                        Operator("Equal")} =>
                        \E r \in {simple_math_op_sys(exchanged,
                                                     call'.items[1].op,
                                                     vcall.overflow_checks)} :
                            /\ r.panic = (ret' = Panic)
                            /\ ~r.panic => r.stack = stack']_vars

\* C39: with pokemon_op_sys, on a stack that holds one creature, Evolute
\* leaves the next stage of the creature's family and Devolute the stage
\* before, alone on the stack and returned as the top; Evolute leaves the
\* last stage of a family as it is and Devolute the first; and Close leaves
\* the stack with no creature.  The families are Bulbasaur, Ivysaur,
\* Venusaur; Charmander, Charmaleon, Charizard; Squirtle, Wartortle,
\* Blastoise.
C39_EvolutionChart ==
    [][/\ call'.op = "operate"
       /\ call'.items[1].kind = "Operator"
       /\ Len(stack.main) = 1
       => LET families ==
                  {<<"Bulbasaur", "Ivysaur", "Venusaur">>,
                   <<"Charmander", "Charmaleon", "Charizard">>,
                   <<"Squirtle", "Wartortle", "Blastoise">>}
              command == call'.items[1].op
          IN  \E family \in families : \E stage \in 1..3 :
                  /\ stack.main[1] = family[stage]
                  /\ command = "Evolute" =>
                         /\ stack'.main =
                                <<family[IF stage = 3 THEN 3 ELSE stage + 1]>>
                         /\ ret' =
                                Ok(Some(family[IF stage = 3 THEN 3 ELSE stage + 1]))
                  /\ command = "Devolute" =>
                         /\ stack'.main =
                                <<family[IF stage = 1 THEN 1 ELSE stage - 1]>>
                         /\ ret' =
                                Ok(Some(family[IF stage = 1 THEN 1 ELSE stage - 1]))
                  /\ command = "Close" =>
                         /\ stack'.main = <<>>
                         /\ length(stack') = 0
                         /\ ret' = Ok(None)
                  /\ stack'.alt = stack.alt
                  /\ if_stack' = if_stack]_vars

\* Evolute has been operated and has left a Charizard, alone on the stack
C39_Witness ==
    /\ call = [op |-> "operate", items |-> <<Operator("Evolute")>>]
    /\ stack.main = <<"Charizard">>
    /\ ret = Ok(Some("Charizard"))

====
